---- MODULE Spec2Model ----
(***************************************************************************)
(* Semantic analysis of MiniJava (p3-semantic-186291/mjc/mj_sema.py):      *)
(* SymbolTableBuilder followed by SemanticAnalyzer, run over an AST that   *)
(* the parser (mj_parser.py) built.  The Python call stack of the visitors *)
(* is the variable agenda: a handler that visits children pushes the       *)
(* children and the rest of its own body as continuation items.            *)
(***************************************************************************)
EXTENDS Integers, Sequences, FiniteSets, TLC

VARIABLES
    prog,                        \* Program.class_decls, the AST under analysis
    gen,                         \* the CodeGenerator object: its fields, the basic blocks
                                 \* it has built and the cfg attributes it has set
    opt,                         \* the DataFlow object: its fields and the calls it made
    run,                         \* "first" while no node has been annotated by an earlier
                                 \* visit of the AST; "same" or "new" in a second visit
    pc,                          \* "build", "sema", "done", "exited", "crashed", "hung"
    agenda,                      \* pending visits and handler continuations
    global_symtab,               \* SymbolTableBuilder.global_symtab: class name -> class scope
    class_symtab,                \* own SymbolTable of every class scope
    superclass,                  \* the superclass attribute of every class scope
    current_class,               \* SymbolTableBuilder.current_class
    scope_stack,                 \* SemanticAnalyzer.scope.scope_stack
    current_class_name,          \* SemanticAnalyzer.current_class_name
    current_method_return_type,  \* SemanticAnalyzer.current_method_return_type
    current_loop,                \* SemanticAnalyzer.current_loop (coord of the loop node, 0 = None)
    main_declared,               \* SemanticAnalyzer.main_declared
    output,                      \* diagnostics written to standard output
    exit_code,                   \* status passed to sys.exit, -1 while none
    last                         \* history: the handler that ran last and what it saw

vars == <<prog, gen, opt, run, pc, agenda, global_symtab, class_symtab, superclass,
          current_class, scope_stack, current_class_name, current_method_return_type, current_loop,
          main_declared, output, exit_code, last>>

\* the AST and the annotations earlier visits left on it
ast_vars == <<prog, run>>

builder_vars == <<global_symtab, class_symtab, superclass, current_class>>

analyzer_vars == <<scope_stack, current_class_name, current_method_return_type,
                   current_loop, main_declared>>

(***************************************************************************)
(* mj_type.py: the type domain                                             *)
(***************************************************************************)
MJType(k, n, ret, params, named) ==
    [k |-> k, n |-> n, of |-> "", ret |-> ret, params |-> params, named |-> named]

NoneT == MJType("none", "", "", <<>>, FALSE)

BooleanType == MJType("basic", "boolean", "", <<>>, FALSE)

CharArrayType == MJType("basic", "char[]", "", <<>>, FALSE)

CharType == MJType("basic", "char", "", <<>>, FALSE)

IntArrayType == MJType("basic", "int[]", "", <<>>, FALSE)

IntType == MJType("basic", "int", "", <<>>, FALSE)

StringType == MJType("basic", "String", "", <<>>, FALSE)

StringArrayType == MJType("basic", "String[]", "", <<>>, FALSE)

VoidType == MJType("basic", "void", "", <<>>, FALSE)

ObjectType(class_name) == MJType("object", class_name, "", <<>>, FALSE)

\* of and n (declaring class and method name) identify the MethodType
\* instance, one per declaration; named tells whether the attribute
\* param_names was set on it
MethodType(of, n, return_type, param_types, named) ==
    [k |-> "method", n |-> n, of |-> of, ret |-> return_type,
     params |-> param_types, named |-> named]

\* a ScopedSymbolTable of a class, as the global table stores it
ClassScope(name) == MJType("scope", name, "", <<>>, FALSE)

BuiltinNames == {"boolean", "char", "int", "String", "String[]", "void", "int[]", "char[]"}

ArithOps == {"+", "-", "*", "/", "%"}

RelOps == {"==", "!=", "<", ">", "<=", ">="}

LogicOps == {"&&", "||"}

binary_ops(t) ==
    IF t.k = "basic" THEN
        CASE t.n = "char[]" -> {"+"}
          [] t.n = "char"   -> {"-", "*", "/", "%"}
          [] t.n = "int"    -> {"+", "-", "*", "/", "%"}
          [] t.n = "String" -> {"+", "=="}
          [] OTHER          -> {}
    ELSE {}

rel_ops(t) ==
    IF t.k = "basic" THEN
        CASE t.n \in {"char", "int"} -> {"==", "!=", "<", ">", "<=", ">="}
          [] t.n = "void"            -> {}
          [] OTHER                   -> {"==", "!="}
    ELSE IF t.k = "object" THEN {"==", "!="}
    ELSE {}

\* a == b of Python on these values: identity for the singletons,
\* ObjectType.__eq__ compares typename, MethodType.__eq__ the signature
TypeEq(a, b) ==
    CASE a.k = "basic"  -> b.k = "basic" /\ a.n = b.n
      [] a.k = "object" -> b.k = "object" /\ a.n = b.n
      [] a.k = "method" -> b.k = "method" /\ a.ret = b.ret /\ a.params = b.params
      [] a.k = "scope"  -> b.k = "scope" /\ a.n = b.n
      [] OTHER          -> b.k = "none"

\* a is b of Python: the same object.  An ObjectType reaches an expression
\* twice only through the name it was declared under, which typename decides
\* identically in every use below.
TypeIs(a, b) ==
    CASE a.k = "object" -> FALSE
      [] OTHER          -> a = b

(***************************************************************************)
(* mj_parser.py: the AST nodes the parser builds                           *)
(***************************************************************************)
NoNode == [k |-> "None"]

\* Type.name is a str for the built-in types and an ID node for a user class
Type(name) == [k |-> "Type", name |-> name, id |-> name \notin BuiltinNames]

ClassDecl(name, extends, var_decls, method_decls) ==
    [k |-> "ClassDecl", name |-> name, extends |-> extends,
     var_decls |-> var_decls, method_decls |-> method_decls]

VarDecl(type, name, init) ==
    [k |-> "VarDecl", type |-> Type(type), name |-> name, init |-> init]

ParamDecl(type, name) == [k |-> "ParamDecl", type |-> Type(type), name |-> name]

MethodDecl(type, name, param_list, body) ==
    [k |-> "MethodDecl", type |-> Type(type), name |-> name,
     param_list |-> param_list, body |-> body]

MainMethodDecl(args, body) == [k |-> "MainMethodDecl", args |-> args, body |-> body]

Compound(statements) == [k |-> "Compound", statements |-> statements]

If(cond, iftrue, iffalse) ==
    [k |-> "If", cond |-> cond, iftrue |-> iftrue, iffalse |-> iffalse]

While(coord, cond, body) == [k |-> "While", coord |-> coord, cond |-> cond, body |-> body]

For(coord, init, cond, next, body) ==
    [k |-> "For", coord |-> coord, init |-> init, cond |-> cond, next |-> next, body |-> body]

DeclList(decls) == [k |-> "DeclList", decls |-> decls]

Break == [k |-> "Break"]

\* value is "int" for an INT_LITERAL and "str" for every other literal:
\* the parser passes the texts true and false as strings
Constant(type) ==
    [k |-> "Constant", type |-> type, value |-> IF type = "int" THEN "int" ELSE "str"]

ID(name) == [k |-> "ID", name |-> name]

This == [k |-> "This"]

NewObject(name) == [k |-> "NewObject", type |-> Type(name)]

NewArray(type, size) == [k |-> "NewArray", type |-> Type(type), size |-> size]

Assignment(lvalue, rvalue) == [k |-> "Assignment", lvalue |-> lvalue, rvalue |-> rvalue]

BinaryOp(op, left, right) == [k |-> "BinaryOp", op |-> op, lvalue |-> left, rvalue |-> right]

UnaryOp(op, expr) == [k |-> "UnaryOp", op |-> op, expr |-> expr]

FieldAccess(object, field_name) ==
    [k |-> "FieldAccess", object |-> object, field_name |-> field_name]

\* args is the sequence of argument nodes (None, one node or an ExprList)
MethodCall(object, method_name, args) ==
    [k |-> "MethodCall", object |-> object, method_name |-> method_name, args |-> args]

(***************************************************************************)
(* SymbolTable and ScopedSymbolTable                                       *)
(***************************************************************************)
EmptyTable == <<>>

SymbolTable_add(tab, name, value) == (name :> value) @@ tab

SymbolTable_lookup(tab, name) == IF name \in DOMAIN tab THEN tab[name] ELSE NoneT

RECURSIVE lookup(_, _)
lookup(stack, name) ==
    IF stack = <<>> THEN NoneT
    ELSE LET resp == SymbolTable_lookup(stack[Len(stack)], name)
         IN  IF resp # NoneT THEN resp
             ELSE lookup(SubSeq(stack, 1, Len(stack) - 1), name)

lookup_in_current_scope(stack, name) == name \in DOMAIN stack[Len(stack)]

\* a push of two scopes; C30_Balanced tells it apart
push_scope_twice(stack) == Append(Append(stack, EmptyTable), EmptyTable)

push_scope(stack) == Append(stack, EmptyTable)

\* a pop that leaves the innermost scope in place; C4_Scopes tells it apart
pop_scope_kept(stack) == stack

pop_scope(stack) == SubSeq(stack, 1, Len(stack) - 1)

add(stack, name, value) ==
    [stack EXCEPT ![Len(stack)] = SymbolTable_add(stack[Len(stack)], name, value)]

\* the scope_stack of the global table and of a class scope: the class scope
\* copied the global stack, so it shares the global SymbolTable object
GlobalStack == <<global_symtab>>

ClassStack(name) == <<global_symtab, class_symtab[name]>>

\* self.typemap.get(name) for a str
typemap_get(name) ==
    IF name \in BuiltinNames THEN MJType("basic", name, "", <<>>, FALSE) ELSE NoneT

\* self.typemap.get(node.type.name) and self.global_symtab.lookup(node.type.name)
\* of SymbolTableBuilder, which pass Type.name as it is: an ID node is no key
\* of either dict
typemap_get_node(type) == IF type.id THEN NoneT ELSE typemap_get(type.name)

global_lookup_node(type) == IF type.id THEN NoneT ELSE lookup(GlobalStack, type.name)

(***************************************************************************)
(* mj_serror.assert_semantic on a failing condition: the diagnostic is     *)
(* printed and the process leaves with sys.exit(1)                         *)
(***************************************************************************)
assert_semantic(error_type) ==
    /\ output' = Append(output, error_type)
    /\ exit_code' = 1
    /\ pc' = "exited"

\* an exception that is not SystemExit leaves the visitors: no diagnostic
uncaught_exception ==
    /\ pc' = "crashed"
    /\ UNCHANGED <<output, exit_code>>

\* a loop of the handler never ends: the process neither prints nor exits
diverge ==
    /\ pc' = "hung"
    /\ UNCHANGED <<output, exit_code>>

(***************************************************************************)
(* SemanticAnalyzer: the expression visitors.  A visit yields the type it  *)
(* returns (t) and the first failure met in visiting order (err): an       *)
(* SE kind, "AttributeError" or "nontermination"; "" when there is none.   *)
(***************************************************************************)
Ok(t) == [err |-> "", t |-> t]

Err(kind) == [err |-> kind, t |-> NoneT]

\* the walk up the superclass attributes in is_type_compatible
RECURSIVE superclass_walk(_, _, _)
superclass_walk(current_class_, declared_typename, seen) ==
    LET super == superclass[current_class_]
    IN  IF super = "" THEN "False"
        ELSE IF super = declared_typename THEN "True"
        ELSE IF super \in seen THEN "nontermination"
        ELSE superclass_walk(super, declared_typename, seen \cup {super})

is_type_compatible(declared, actual) ==
    IF declared.k = "none" \/ actual.k = "none" THEN "False"
    ELSE IF TypeIs(declared, actual) THEN "True"
    ELSE IF declared = CharArrayType /\ actual = StringType THEN "True"
    ELSE IF actual.k = "object" /\ declared.k = "object" THEN
        IF declared.n = actual.n THEN "True"
        ELSE IF actual.n \notin DOMAIN global_symtab THEN "False"
        ELSE superclass_walk(actual.n, declared.n, {actual.n})
    ELSE "False"

RECURSIVE _find_field_in_class_or_super(_, _, _)
_find_field_in_class_or_super(class_scope, field_name, seen) ==
    LET found_type == lookup(ClassStack(class_scope), field_name)
        super == superclass[class_scope]
    IN  IF found_type # NoneT THEN Ok(found_type)
        ELSE IF super = "" THEN Err("UNDECLARED_FIELD")
        ELSE IF super \in seen THEN Err("nontermination")
        ELSE _find_field_in_class_or_super(super, field_name, seen \cup {super})

\* node.type is the text the parser gave until a visit has overwritten it
\* with an MJType, which is never equal to 'char'
visit_Constant(node) ==
    IF node.value = "int" THEN Ok(IntType)
    ELSE IF node.type = "char" /\ run = "first" THEN Ok(CharType)
    ELSE Ok(StringType)

visit_This(node) == Ok(ObjectType(current_class_name))

visit_ID(node, stack) ==
    LET symbol == lookup(stack, node.name)
    IN  IF symbol = NoneT THEN Err("UNDECLARED_NAME") ELSE Ok(symbol)

visit_NewObject(node) ==
    IF lookup(GlobalStack, node.type.name) = NoneT
    THEN Err("UNDECLARED_CLASS")
    ELSE Ok(ObjectType(node.type.name))

\* the checks of visit_BinaryOp once both operands have a type
BinaryOp_check(op, ltype, rtype) ==
    LET compatible == is_type_compatible(ltype, rtype)
    IN  IF compatible = "nontermination" THEN Err("nontermination")
        ELSE IF compatible = "False" THEN Err("BINARY_EXPRESSION_TYPE_MISMATCH")
        ELSE IF ltype.k = "scope" THEN Err("AttributeError")
        ELSE IF op \in binary_ops(ltype) THEN Ok(ltype)
        ELSE IF op \in rel_ops(ltype) THEN Ok(BooleanType)
        ELSE IF op \in {"&&", "||"} /\ TypeEq(ltype, BooleanType) THEN Ok(BooleanType)
        ELSE Err("UNSUPPORTED_BINARY_OPERATION")

\* the check of visit_Assignment and of an initializer in visit_VarDecl
Assign_check(ltype, rtype) ==
    LET compatible == is_type_compatible(ltype, rtype)
    IN  IF compatible = "nontermination" THEN Err("nontermination")
        ELSE IF compatible = "False" THEN Err("ASSIGN_TYPE_MISMATCH")
        ELSE Ok(ltype)

UnaryOp_check(op, expr_type) ==
    IF op = "!" THEN
        IF TypeEq(expr_type, BooleanType) THEN Ok(BooleanType)
        ELSE Err("UNSUPPORTED_UNARY_OPERATION")
    ELSE IF op \in {"-", "+"} THEN
        IF TypeEq(expr_type, IntType) THEN Ok(IntType)
        ELSE Err("UNSUPPORTED_UNARY_OPERATION")
    ELSE Err("UNSUPPORTED_UNARY_OPERATION")

\* visit_FieldAccess once the object has a type
FieldAccess_check(obj_type, field_name) ==
    IF obj_type.k = "none" THEN Err("UNDECLARED_NAME")
    ELSE IF obj_type.k # "object" THEN Err("OBJECT_TYPE_MUST_BE_A_CLASS")
    ELSE IF lookup(GlobalStack, obj_type.n) = NoneT THEN Err("UNDECLARED_FIELD")
    ELSE _find_field_in_class_or_super(obj_type.n, field_name, {obj_type.n})

\* visit_MethodCall up to the argument count: yields the method_info
MethodCall_resolve(obj_type, method_name, nargs) ==
    IF obj_type.k = "none" THEN Err("UNDECLARED_NAME")
    ELSE IF obj_type.k # "object" THEN Err("OBJECT_TYPE_MUST_BE_A_CLASS")
    ELSE IF lookup(GlobalStack, obj_type.n) = NoneT THEN Err("UNDECLARED_CLASS")
    ELSE LET method_info == lookup(ClassStack(obj_type.n), method_name)
         IN  IF method_info = NoneT THEN Err("UNDECLARED_METHOD")
             ELSE IF method_info.k # "method" \/ ~method_info.named THEN Err("AttributeError")
             ELSE IF nargs # Len(method_info.params) THEN Err("ARGUMENT_COUNT_MISMATCH")
             ELSE Ok(method_info)

RECURSIVE visit(_, _)
RECURSIVE visit_args(_, _, _, _)
\* the loop over zip(args, param_types, param_names) of visit_MethodCall
visit_args(args, param_types, i, stack) ==
    IF i > Len(args) THEN Ok(NoneT)
    ELSE LET arg == visit(args[i], stack)
         IN  IF arg.err # "" THEN arg
             ELSE IF ~TypeEq(arg.t, MJType("basic", param_types[i], "", <<>>, FALSE))
                  THEN Err("PARAMETER_TYPE_MISMATCH")
             ELSE visit_args(args, param_types, i + 1, stack)

visit(node, stack) ==
    CASE node.k = "Constant" -> visit_Constant(node)
      [] node.k = "ID" -> visit_ID(node, stack)
      [] node.k = "This" -> visit_This(node)
      [] node.k = "NewObject" -> visit_NewObject(node)
      [] node.k = "NewArray" ->
            LET size == visit(node.size, stack)
            IN  IF size.err # "" THEN size
                ELSE IF ~TypeEq(size.t, IntType) THEN Err("ARRAY_DIMENTION_MISMATCH")
                ELSE Ok(typemap_get(node.type.name))
      [] node.k = "Assignment" ->
            LET r == visit(node.rvalue, stack)
                l == visit(node.lvalue, stack)
            IN  IF r.err # "" THEN r
                ELSE IF l.err # "" THEN l
                ELSE Assign_check(l.t, r.t)
      [] node.k = "BinaryOp" ->
            LET r == visit(node.rvalue, stack)
                l == visit(node.lvalue, stack)
            IN  IF r.err # "" THEN r
                ELSE IF l.err # "" THEN l
                ELSE BinaryOp_check(node.op, l.t, r.t)
      [] node.k = "UnaryOp" ->
            LET e == visit(node.expr, stack)
            IN  IF e.err # "" THEN e ELSE UnaryOp_check(node.op, e.t)
      [] node.k = "FieldAccess" ->
            LET o == visit(node.object, stack)
            IN  IF o.err # "" THEN o ELSE FieldAccess_check(o.t, node.field_name)
      [] node.k = "MethodCall" ->
            LET o == visit(node.object, stack)
                m == MethodCall_resolve(o.t, node.method_name, Len(node.args))
                a == visit_args(node.args, m.t.params, 1, stack)
            IN  IF o.err # "" THEN o
                ELSE IF m.err # "" THEN m
                ELSE IF a.err # "" THEN a
                ELSE Ok(MJType("basic", m.t.ret, "", <<>>, FALSE))
      [] OTHER -> Ok(NoneT)

(***************************************************************************)
(* The run: agenda items, outcomes                                         *)
(***************************************************************************)
\* ref keeps current_ref of a loop handler; entry is history, the scope stack
\* the handler began with, which no action reads
Mark(op, node, ref, entry) == [op |-> op, node |-> node, ref |-> ref, entry |-> entry]

Item(op, node, ref) == Mark(op, node, ref, <<>>)

Visits(nodes) == [i \in 1..Len(nodes) |-> Item("visit", nodes[i], 0)]

Last(h, nm, op, lt, rt, ty, err) ==
    [h |-> h, nm |-> nm, op |-> op, lt |-> lt, rt |-> rt, ty |-> ty, err |-> err]

NoLast == Last("", "", "", NoneT, NoneT, NoneT, "")

At(op) == agenda # <<>> /\ Head(agenda).op = op

AtVisit(phase, kinds) ==
    /\ pc = phase
    /\ agenda # <<>>
    /\ Head(agenda).op = "visit"
    /\ Head(agenda).node.k \in kinds

\* the handler fails: nothing of it remains but the way the process ended
Failed(l) ==
    /\ CASE l.err = "AttributeError" -> uncaught_exception
         [] l.err = "nontermination" -> diverge
         [] OTHER -> assert_semantic(l.err)
    /\ last' = l
    /\ UNCHANGED <<ast_vars, gen, opt, agenda, builder_vars, analyzer_vars>>

(***************************************************************************)
(* SymbolTableBuilder                                                      *)
(***************************************************************************)
\* a visit_Program with a single loop, which registers a class and visits it
\* at once; C10_ClassesFirst tells it apart
SB_visit_Program_one_loop(class_decls) ==
    [i \in 1..2 * Len(class_decls) |->
        IF i % 2 = 1 THEN Item("register", class_decls[(i + 1) \div 2], 0)
        ELSE Item("visit", class_decls[i \div 2], 0)]
    \o <<Item("SB_return", NoNode, 0)>>

\* visit_Program: every class is registered, then every class is visited,
\* then the global table is returned
SB_visit_Program(class_decls) ==
    [i \in 1..Len(class_decls) |-> Item("register", class_decls[i], 0)]
    \o Visits(class_decls) \o <<Item("SB_return", NoNode, 0)>>

\* visit_Program, first loop: one class_decl per step
SB_visit_Program_register ==
    /\ pc = "build" /\ At("register")
    /\ LET class_decl == Head(agenda).node
           class_name == class_decl.name
       IN  IF lookup(GlobalStack, class_name) # NoneT
           THEN Failed(Last("SB_register", class_name, "", NoneT, NoneT, NoneT,
                            "ALREADY_DECLARED_CLASS"))
           ELSE /\ class_symtab' = (class_name :> EmptyTable) @@ class_symtab
                /\ superclass' = (class_name :> "") @@ superclass
                /\ global_symtab' = SymbolTable_add(global_symtab, class_name,
                                                    ClassScope(class_name))
                /\ agenda' = Tail(agenda)
                /\ last' = Last("SB_register", class_name, "", NoneT, NoneT, NoneT, "")
                /\ UNCHANGED <<ast_vars, gen, opt, pc, output, exit_code, current_class, analyzer_vars>>

SB_visit_ClassDecl ==
    /\ AtVisit("build", {"ClassDecl"})
    /\ LET node == Head(agenda).node
       IN  IF node.extends # "" /\ lookup(GlobalStack, node.extends) = NoneT
           THEN Failed(Last("SB_ClassDecl", node.name, "", NoneT, NoneT, NoneT,
                            "UNDECLARED_CLASS"))
           ELSE /\ current_class' = node.name
                /\ superclass' = IF node.extends # ""
                                 THEN [superclass EXCEPT ![node.name] = node.extends]
                                 ELSE superclass
                /\ agenda' = Visits(node.var_decls) \o Visits(node.method_decls)
                             \o <<Item("SB_ClassDecl_exit", NoNode, 0)>> \o Tail(agenda)
                /\ last' = Last("SB_ClassDecl", node.name, "", NoneT, NoneT, NoneT, "")
                /\ UNCHANGED <<ast_vars, gen, opt, pc, output, exit_code, global_symtab, class_symtab,
                               analyzer_vars>>

SB_ClassDecl_exit ==
    /\ pc = "build" /\ At("SB_ClassDecl_exit")
    /\ current_class' = ""
    /\ agenda' = Tail(agenda)
    /\ last' = Last("SB_ClassDecl_exit", current_class, "", NoneT, NoneT, NoneT, "")
    /\ UNCHANGED <<ast_vars, gen, opt, pc, output, exit_code, global_symtab, class_symtab, superclass,
                   analyzer_vars>>

SB_visit_VarDecl ==
    /\ AtVisit("build", {"VarDecl"})
    /\ LET node == Head(agenda).node
           var_type_field == typemap_get_node(node.type)
           err == IF lookup(ClassStack(current_class), node.name) # NoneT
                  THEN "ALREADY_DECLARED_FIELD"
                  ELSE IF var_type_field = NoneT /\ global_lookup_node(node.type) = NoneT
                  THEN "UNDECLARED_CLASS"
                  ELSE ""
           var_type == IF var_type_field = NoneT THEN ObjectType(node.type.name)
                       ELSE var_type_field
       IN  IF err # ""
           THEN Failed(Last("SB_VarDecl", node.name, "", NoneT, NoneT, NoneT, err))
           ELSE /\ class_symtab' = [class_symtab EXCEPT ![current_class] =
                                       SymbolTable_add(@, node.name, var_type)]
                /\ agenda' = Tail(agenda)
                /\ last' = Last("SB_VarDecl", node.name, "", NoneT, NoneT, var_type, "")
                /\ UNCHANGED <<ast_vars, gen, opt, pc, output, exit_code, global_symtab, superclass,
                               current_class, analyzer_vars>>

SB_visit_MethodDecl ==
    /\ AtVisit("build", {"MethodDecl"})
    /\ LET node == Head(agenda).node
           param_list == node.param_list
           unknown == {i \in 1..Len(param_list) :
                          typemap_get_node(param_list[i].type) = NoneT}
           err == IF lookup(ClassStack(current_class), node.name) # NoneT
                  THEN "ALREADY_DECLARED_METHOD"
                  ELSE IF typemap_get_node(node.type) = NoneT THEN "RETURN_TYPE_MISMATCH"
                  ELSE IF unknown # {} THEN "UNDECLARED_CLASS"
                  ELSE ""
           method_type == MethodType(current_class, node.name, node.type.name,
                              [i \in 1..Len(param_list) |-> param_list[i].type.name], TRUE)
       IN  IF err # ""
           THEN Failed(Last("SB_MethodDecl", node.name, "", NoneT, NoneT, NoneT, err))
           ELSE /\ class_symtab' = [class_symtab EXCEPT ![current_class] =
                                       SymbolTable_add(@, node.name, method_type)]
                /\ agenda' = Tail(agenda)
                /\ last' = Last("SB_MethodDecl", node.name, "", NoneT, NoneT, method_type, "")
                /\ UNCHANGED <<ast_vars, gen, opt, pc, output, exit_code, global_symtab, superclass,
                               current_class, analyzer_vars>>

SB_visit_MainMethodDecl ==
    /\ AtVisit("build", {"MainMethodDecl"})
    /\ LET method_type == MethodType(current_class, "main", "void", <<"String">>, FALSE)
       IN  IF lookup(ClassStack(current_class), "main") # NoneT
           THEN Failed(Last("SB_MainMethodDecl", "main", "", NoneT, NoneT, NoneT,
                            "ALREADY_DECLARED_METHOD"))
           ELSE /\ class_symtab' = [class_symtab EXCEPT ![current_class] =
                                       SymbolTable_add(@, "main", method_type)]
                /\ agenda' = Tail(agenda)
                /\ last' = Last("SB_MainMethodDecl", "main", "", NoneT, NoneT, method_type, "")
                /\ UNCHANGED <<ast_vars, gen, opt, pc, output, exit_code, global_symtab, superclass,
                               current_class, analyzer_vars>>

\* visit_Program returns the global table; main() builds the SemanticAnalyzer
\* on it and visits the same AST
SB_return ==
    /\ pc = "build" /\ At("SB_return")
    /\ pc' = "sema"
    /\ agenda' = <<Item("SA_visit_Program", NoNode, 0)>>
    /\ scope_stack' = push_scope(<<>>)
    /\ main_declared' = FALSE
    /\ current_class_name' = ""
    /\ current_method_return_type' = NoneT
    /\ current_loop' = 0
    /\ last' = Last("SB_return", "", "", NoneT, NoneT, NoneT, "")
    /\ UNCHANGED <<ast_vars, gen, opt, output, exit_code, builder_vars>>

(***************************************************************************)
(* SemanticAnalyzer: declarations and statements                           *)
(***************************************************************************)
ExprKinds == {"Constant", "ID", "This", "NewObject", "NewArray", "Assignment",
              "BinaryOp", "UnaryOp", "FieldAccess", "MethodCall"}

\* what the visit of an expression node saw: the name it resolved, its
\* operator, the types of its operands (of its object) once they were typed
ExprLast(h, node, stack) ==
    LET res == visit(node, stack)
        binary == node.k \in {"Assignment", "BinaryOp"}
        dotted == node.k \in {"FieldAccess", "MethodCall"}
        r == IF binary THEN visit(node.rvalue, stack) ELSE Ok(NoneT)
        l == IF binary THEN visit(node.lvalue, stack)
             ELSE IF dotted THEN visit(node.object, stack) ELSE Ok(NoneT)
        typed == r.err = "" /\ l.err = ""
    IN  Last(h,
             CASE node.k = "ID" -> node.name
               [] node.k = "FieldAccess" -> node.field_name
               [] node.k = "MethodCall" -> node.method_name
               [] node.k = "NewObject" -> node.type.name
               [] OTHER -> "",
             IF node.k \in {"BinaryOp", "UnaryOp"} THEN node.op ELSE "",
             IF typed THEN l.t ELSE NoneT,
             IF typed THEN r.t ELSE NoneT,
             res.t, res.err)

SA_visit_Program ==
    /\ pc = "sema" /\ At("SA_visit_Program")
    /\ IF \E i, j \in 1..Len(prog) : i < j /\ prog[i].name = prog[j].name
       THEN Failed(Last("SA_Program", "", "", NoneT, NoneT, NoneT, "ALREADY_DECLARED_CLASS"))
       ELSE /\ agenda' = Visits(prog) \o Tail(agenda)
            /\ last' = Last("SA_Program", "", "", NoneT, NoneT, NoneT, "")
            /\ UNCHANGED <<ast_vars, gen, opt, pc, output, exit_code, builder_vars, analyzer_vars>>

SA_visit_ClassDecl ==
    /\ AtVisit("sema", {"ClassDecl"})
    /\ LET node == Head(agenda).node
       IN  IF \/ lookup(GlobalStack, node.name) = NoneT
              \/ node.extends # "" /\ lookup(GlobalStack, node.extends) = NoneT
           THEN Failed(Last("SA_ClassDecl", node.name, "", NoneT, NoneT, NoneT,
                            "UNDECLARED_CLASS"))
           ELSE /\ current_class_name' = node.name
                /\ agenda' = Visits(node.var_decls) \o Visits(node.method_decls)
                             \o <<Item("SA_ClassDecl_exit", NoNode, 0)>> \o Tail(agenda)
                /\ last' = Last("SA_ClassDecl", node.name, "", NoneT, NoneT, NoneT, "")
                /\ UNCHANGED <<ast_vars, gen, opt, pc, output, exit_code, builder_vars, scope_stack,
                               current_method_return_type, current_loop, main_declared>>

SA_ClassDecl_exit ==
    /\ pc = "sema" /\ At("SA_ClassDecl_exit")
    /\ current_class_name' = ""
    /\ agenda' = Tail(agenda)
    /\ last' = Last("SA_ClassDecl_exit", current_class_name, "", NoneT, NoneT, NoneT, "")
    /\ UNCHANGED <<ast_vars, gen, opt, pc, output, exit_code, builder_vars, scope_stack,
                   current_method_return_type, current_loop, main_declared>>

\* fields of a class and local declarations alike
SA_visit_VarDecl ==
    /\ AtVisit("sema", {"VarDecl"})
    /\ LET node == Head(agenda).node
           class_name == node.type.name
           declared_type_class == typemap_get(class_name)
           declared_type == IF declared_type_class = NoneT THEN ObjectType(class_name)
                            ELSE declared_type_class
           init == IF node.init.k # "None" THEN visit(node.init, scope_stack) ELSE Ok(NoneT)
           check == IF node.init.k # "None" THEN Assign_check(declared_type, init.t)
                    ELSE Ok(NoneT)
           pre == IF declared_type_class = NoneT /\ lookup(GlobalStack, class_name) = NoneT
                  THEN "UNDECLARED_CLASS"
                  ELSE IF lookup_in_current_scope(scope_stack, node.name)
                  THEN "ALREADY_DECLARED_NAME"
                  ELSE ""
           err == IF pre # "" THEN pre
                  ELSE IF init.err # "" THEN init.err
                  ELSE check.err
           l == Last("SA_VarDecl", node.name, "", declared_type,
                     IF pre = "" /\ init.err = "" THEN init.t ELSE NoneT,
                     declared_type, err)
       IN  IF err # ""
           THEN Failed(l)
           ELSE /\ scope_stack' = add(scope_stack, node.name, declared_type)
                /\ agenda' = Tail(agenda)
                /\ last' = l
                /\ UNCHANGED <<ast_vars, gen, opt, pc, output, exit_code, builder_vars, current_class_name,
                               current_method_return_type, current_loop, main_declared>>

\* the loop of visit_MethodDecl over zip(param_list, method_info.param_types)
RECURSIVE add_params(_, _, _, _)
add_params(stack, param_list, param_types, i) ==
    IF i > Len(param_list) \/ i > Len(param_types) THEN [err |-> "", stack |-> stack]
    ELSE IF lookup_in_current_scope(stack, param_list[i].name)
    THEN [err |-> "PARAMETER_ALREADY_DECLARED", stack |-> stack]
    ELSE add_params(add(stack, param_list[i].name, typemap_get(param_types[i])),
                    param_list, param_types, i + 1)

SA_visit_MethodDecl ==
    /\ AtVisit("sema", {"MethodDecl"})
    /\ LET node == Head(agenda).node
           class_scope == lookup(GlobalStack, current_class_name)
           method_info == lookup(ClassStack(current_class_name), node.name)
           params == add_params(push_scope(scope_stack), node.param_list,
                                method_info.params, 1)
           err == IF class_scope = NoneT THEN "UNDECLARED_CLASS"
                  ELSE IF method_info = NoneT THEN "UNDECLARED_METHOD"
                  ELSE IF method_info.k # "method" THEN "AttributeError"
                  ELSE params.err
       IN  IF err # ""
           THEN Failed(Last("SA_MethodDecl", node.name, "", NoneT, NoneT, NoneT, err))
           ELSE /\ current_method_return_type' = typemap_get(method_info.ret)
                /\ scope_stack' = params.stack
                /\ agenda' = <<Item("visit", node.body, 0),
                               Mark("SA_MethodDecl_exit", NoNode, 0, scope_stack)>> \o Tail(agenda)
                /\ last' = Last("SA_MethodDecl", node.name, "", NoneT, NoneT, method_info, "")
                /\ UNCHANGED <<ast_vars, gen, opt, pc, output, exit_code, builder_vars, current_class_name,
                               current_loop, main_declared>>

SA_MethodDecl_exit ==
    /\ pc = "sema" /\ At("SA_MethodDecl_exit")
    /\ scope_stack' = pop_scope(scope_stack)
    /\ current_method_return_type' = NoneT
    /\ agenda' = Tail(agenda)
    /\ last' = Last("SA_MethodDecl_exit", "", "", NoneT, NoneT, NoneT, "")
    /\ UNCHANGED <<ast_vars, gen, opt, pc, output, exit_code, builder_vars, current_class_name,
                   current_loop, main_declared>>

SA_visit_MainMethodDecl ==
    /\ AtVisit("sema", {"MainMethodDecl"})
    /\ LET node == Head(agenda).node
           class_scope == lookup(GlobalStack, current_class_name)
           method_info == lookup(ClassStack(current_class_name), "main")
           err == IF main_declared THEN "ALREADY_DECLARED_METHOD"
                  ELSE IF class_scope = NoneT THEN "UNDECLARED_CLASS"
                  ELSE IF method_info = NoneT THEN "UNDECLARED_METHOD"
                  ELSE IF method_info.k # "method" THEN "AttributeError"
                  ELSE IF Len(method_info.params) # 1 THEN "ARGUMENT_COUNT_MISMATCH"
                  ELSE ""
       IN  IF err # ""
           THEN Failed(Last("SA_MainMethodDecl", "main", "", NoneT, NoneT, NoneT, err))
           ELSE /\ main_declared' = TRUE
                /\ current_method_return_type' = typemap_get(method_info.ret)
                /\ scope_stack' = add(push_scope(scope_stack), node.args,
                                      typemap_get(method_info.params[1]))
                /\ agenda' = <<Item("visit", node.body, 0),
                               Mark("SA_MainMethodDecl_exit", NoNode, 0, scope_stack)>> \o Tail(agenda)
                /\ last' = Last("SA_MainMethodDecl", "main", "", NoneT, NoneT, method_info, "")
                /\ UNCHANGED <<ast_vars, gen, opt, pc, output, exit_code, builder_vars, current_class_name,
                               current_loop>>

SA_MainMethodDecl_exit ==
    /\ pc = "sema" /\ At("SA_MainMethodDecl_exit")
    /\ scope_stack' = pop_scope(scope_stack)
    /\ current_method_return_type' = NoneT
    /\ agenda' = Tail(agenda)
    /\ last' = Last("SA_MainMethodDecl_exit", "", "", NoneT, NoneT, NoneT, "")
    /\ UNCHANGED <<ast_vars, gen, opt, pc, output, exit_code, builder_vars, current_class_name,
                   current_loop, main_declared>>

SA_visit_Compound ==
    /\ AtVisit("sema", {"Compound"})
    /\ LET node == Head(agenda).node
       IN  /\ scope_stack' = push_scope(scope_stack)
           /\ agenda' = Visits(node.statements)
                        \o <<Mark("SA_Compound_exit", NoNode, 0, scope_stack)>> \o Tail(agenda)
    /\ last' = Last("SA_Compound", "", "", NoneT, NoneT, NoneT, "")
    /\ UNCHANGED <<ast_vars, gen, opt, pc, output, exit_code, builder_vars, current_class_name,
                   current_method_return_type, current_loop, main_declared>>

SA_Compound_exit ==
    /\ pc = "sema" /\ At("SA_Compound_exit")
    /\ scope_stack' = pop_scope(scope_stack)
    /\ agenda' = Tail(agenda)
    /\ last' = Last("SA_Compound_exit", "", "", NoneT, NoneT, NoneT, "")
    /\ UNCHANGED <<ast_vars, gen, opt, pc, output, exit_code, builder_vars, current_class_name,
                   current_method_return_type, current_loop, main_declared>>

\* the boolean-condition check shared by visit_If, visit_While and visit_For
cond_check(cond, stack) ==
    LET condition_type == visit(cond, stack)
    IN  IF condition_type.err # "" THEN condition_type
        ELSE IF ~TypeEq(condition_type.t, BooleanType)
        THEN Err("CONDITIONAL_EXPRESSION_TYPE_MISMATCH")
        ELSE condition_type

\* visit_If up to the visit of iftrue
SA_visit_If ==
    /\ AtVisit("sema", {"If"})
    /\ LET node == Head(agenda).node
           c == cond_check(node.cond, scope_stack)
           l == Last("SA_If", "", "", NoneT, NoneT, c.t, c.err)
       IN  IF c.err # ""
           THEN Failed(l)
           ELSE /\ scope_stack' = push_scope(scope_stack)
                /\ agenda' = <<Item("visit", node.iftrue, 0),
                               Mark("SA_If_iffalse", node.iffalse, 0, scope_stack)>> \o Tail(agenda)
                /\ last' = l
                /\ UNCHANGED <<ast_vars, gen, opt, pc, output, exit_code, builder_vars, current_class_name,
                               current_method_return_type, current_loop, main_declared>>

\* visit_If after iftrue: its scope is popped, iffalse gets a scope of its own
SA_If_iffalse ==
    /\ pc = "sema" /\ At("SA_If_iffalse")
    /\ LET iffalse == Head(agenda).node
       IN  IF iffalse.k # "None"
           THEN /\ scope_stack' = push_scope(pop_scope(scope_stack))
                /\ agenda' = <<Item("visit", iffalse, 0),
                               Mark("SA_If_exit", NoNode, 0, Head(agenda).entry)>> \o Tail(agenda)
           ELSE /\ scope_stack' = pop_scope(scope_stack)
                /\ agenda' = Tail(agenda)
    /\ last' = Last("SA_If_iffalse", "", "", NoneT, NoneT, NoneT, "")
    /\ UNCHANGED <<ast_vars, gen, opt, pc, output, exit_code, builder_vars, current_class_name,
                   current_method_return_type, current_loop, main_declared>>

SA_If_exit ==
    /\ pc = "sema" /\ At("SA_If_exit")
    /\ scope_stack' = pop_scope(scope_stack)
    /\ agenda' = Tail(agenda)
    /\ last' = Last("SA_If_exit", "", "", NoneT, NoneT, NoneT, "")
    /\ UNCHANGED <<ast_vars, gen, opt, pc, output, exit_code, builder_vars, current_class_name,
                   current_method_return_type, current_loop, main_declared>>

\* visit_While up to the visit of the body; ref keeps current_ref
SA_visit_While ==
    /\ AtVisit("sema", {"While"})
    /\ LET node == Head(agenda).node
           c == cond_check(node.cond, scope_stack)
           l == Last("SA_While", "", "", NoneT, NoneT, c.t, c.err)
       IN  IF c.err # ""
           THEN Failed(l)
           ELSE /\ current_loop' = node.coord
                /\ scope_stack' = push_scope(scope_stack)
                /\ agenda' = <<Item("visit", node.body, 0),
                               Mark("SA_While_exit", node, current_loop, scope_stack)>> \o Tail(agenda)
                /\ last' = l
                /\ UNCHANGED <<ast_vars, gen, opt, pc, output, exit_code, builder_vars, current_class_name,
                               current_method_return_type, main_declared>>

\* a visit_While that forgets current_ref on leaving; C9_BreakInLoop tells it
\* apart
SA_While_exit_reset ==
    /\ pc = "sema" /\ At("SA_While_exit")
    /\ scope_stack' = pop_scope(scope_stack)
    /\ current_loop' = 0
    /\ agenda' = Tail(agenda)
    /\ last' = Last("SA_While_exit", "", "", NoneT, NoneT, NoneT, "")
    /\ UNCHANGED <<ast_vars, gen, opt, pc, output, exit_code, builder_vars, current_class_name,
                   current_method_return_type, main_declared>>

SA_While_exit ==
    /\ pc = "sema" /\ At("SA_While_exit")
    /\ scope_stack' = pop_scope(scope_stack)
    /\ current_loop' = Head(agenda).ref
    /\ agenda' = Tail(agenda)
    /\ last' = Last("SA_While_exit", "", "", NoneT, NoneT, NoneT, "")
    /\ UNCHANGED <<ast_vars, gen, opt, pc, output, exit_code, builder_vars, current_class_name,
                   current_method_return_type, main_declared>>

\* visit_For up to the visit of init (a DeclList, an expression or None)
SA_visit_For ==
    /\ AtVisit("sema", {"For"})
    /\ LET node == Head(agenda).node
           init == IF node.init.k = "DeclList" THEN Visits(node.init.decls)
                   ELSE IF node.init.k = "None" THEN <<>>
                   ELSE <<Item("visit", node.init, 0)>>
       IN  /\ current_loop' = node.coord
           /\ scope_stack' = push_scope(scope_stack)
           /\ agenda' = init \o <<Mark("SA_For_cond", node, current_loop, scope_stack)>> \o Tail(agenda)
    /\ last' = Last("SA_For", "", "", NoneT, NoneT, NoneT, "")
    /\ UNCHANGED <<ast_vars, gen, opt, pc, output, exit_code, builder_vars, current_class_name,
                   current_method_return_type, main_declared>>

\* visit_For after init: the condition, next, then the body
SA_For_cond ==
    /\ pc = "sema" /\ At("SA_For_cond")
    /\ LET node == Head(agenda).node
           c == IF node.cond.k # "None" THEN cond_check(node.cond, scope_stack)
                ELSE Ok(NoneT)
           n == IF node.next.k # "None" THEN visit(node.next, scope_stack) ELSE Ok(NoneT)
           err == IF c.err # "" THEN c.err ELSE n.err
           l == Last("SA_For_cond", "", "", NoneT, NoneT, c.t, err)
       IN  IF err # ""
           THEN Failed(l)
           ELSE /\ agenda' = <<Item("visit", node.body, 0),
                               Mark("SA_For_exit", node, Head(agenda).ref, Head(agenda).entry)>> \o Tail(agenda)
                /\ last' = l
                /\ UNCHANGED <<ast_vars, gen, opt, pc, output, exit_code, builder_vars, analyzer_vars>>

SA_For_exit ==
    /\ pc = "sema" /\ At("SA_For_exit")
    /\ scope_stack' = pop_scope(scope_stack)
    /\ current_loop' = Head(agenda).ref
    /\ agenda' = Tail(agenda)
    /\ last' = Last("SA_For_exit", "", "", NoneT, NoneT, NoneT, "")
    /\ UNCHANGED <<ast_vars, gen, opt, pc, output, exit_code, builder_vars, current_class_name,
                   current_method_return_type, main_declared>>

SA_visit_Break ==
    /\ AtVisit("sema", {"Break"})
    /\ IF current_loop = 0
       THEN Failed(Last("SA_Break", "", "", NoneT, NoneT, NoneT, "WRONG_BREAK_STATEMENT"))
       ELSE /\ agenda' = Tail(agenda)
            /\ last' = Last("SA_Break", "", "", NoneT, NoneT, NoneT, "")
            /\ UNCHANGED <<ast_vars, gen, opt, pc, output, exit_code, builder_vars, analyzer_vars>>

\* an expression statement: the visitor of its node
SA_visit_Expr ==
    /\ AtVisit("sema", ExprKinds)
    /\ LET l == ExprLast(Head(agenda).node.k, Head(agenda).node, scope_stack)
       IN  IF l.err # ""
           THEN Failed(l)
           ELSE /\ agenda' = Tail(agenda)
                /\ last' = l
                /\ UNCHANGED <<ast_vars, gen, opt, pc, output, exit_code, builder_vars, analyzer_vars>>

\* sema.visit(ast) returns: main() ends without a call of sys.exit
SA_return ==
    /\ pc = "sema" /\ agenda = <<>>
    /\ pc' = "done"
    /\ last' = Last("SA_return", "", "", NoneT, NoneT, NoneT, "")
    /\ UNCHANGED <<ast_vars, gen, opt, agenda, output, exit_code, builder_vars, analyzer_vars>>

(***************************************************************************)
(* The programs analysed                                                   *)
(***************************************************************************)
MaxArgs == 1

MaxDecls == 2

SeqsUpTo(S, n) == UNION {[1..k -> S] : k \in 0..n}

BinOps == ArithOps \cup RelOps \cup LogicOps

BasicValueTypes == {"boolean", "char", "int", "void", "String", "char[]", "int[]"}

ValueTypes == BasicValueTypes \cup {"A", "B", "C"}

Method_p(param_list, statements) == MethodDecl("void", "p", param_list, Compound(statements))

EmptyClass(name, extends) == ClassDecl(name, extends, <<>>, <<>>)

\* --- assignments and binary expressions over every pair of types ---------

\* three classes on one chain, in both declaration orders, and two cyclic
\* extends declarations; the method p carries the statements under analysis
Hierarchies(p) ==
    { <<ClassDecl("A", "", <<>>, <<p>>), EmptyClass("B", "A"), EmptyClass("C", "B")>>,
      <<EmptyClass("C", "B"), EmptyClass("B", "A"), ClassDecl("A", "", <<>>, <<p>>)>>,
      <<EmptyClass("A", "B"), EmptyClass("B", "A"), ClassDecl("C", "", <<>>, <<p>>)>>,
      <<ClassDecl("A", "A", <<>>, <<p>>), EmptyClass("B", ""), EmptyClass("C", "B")>> }

\* T1 x; T2 y; followed by x = y or x op y, and T2 y; T1 x = y;  every
\* operator on operands of one type, two operators on the other pairs
TypeProbes(T1, T2) ==
    { <<VarDecl(T1, "x", NoNode), VarDecl(T2, "y", NoNode), Assignment(ID("x"), ID("y"))>>,
      <<VarDecl(T2, "y", NoNode), VarDecl(T1, "x", ID("y"))>> }
    \cup { <<VarDecl(T1, "x", NoNode), VarDecl(T2, "y", NoNode),
             BinaryOp(op, ID("x"), ID("y"))>>
           : op \in IF T1 = T2 THEN BinOps ELSE {"+", "=="} }

TypePrograms ==
    UNION { IF T[1] \in BasicValueTypes /\ T[2] \in BasicValueTypes
            THEN { <<ClassDecl("A", "", <<>>, <<Method_p(<<>>, body)>>)>>
                   : body \in TypeProbes(T[1], T[2]) }
            ELSE UNION { Hierarchies(Method_p(<<>>, body)) : body \in TypeProbes(T[1], T[2]) }
          : T \in ValueTypes \X ValueTypes }

\* T x; followed by x = e or x op e, and T x = e; for the expressions e
\* that are no variable
Literals ==
    { Constant("int"), Constant("char"), Constant("String"), Constant("boolean"), This,
      NewObject("A"), NewObject("B"), NewObject("Z"),
      NewArray("int[]", Constant("int")), NewArray("char[]", Constant("int")),
      NewArray("int[]", Constant("char")),
      UnaryOp("-", Constant("int")), UnaryOp("!", Constant("int")) }

LiteralPrograms ==
    { <<EmptyClass("A", ""), ClassDecl("B", "A", <<>>, <<Method_p(<<>>, body)>>)>>
      : body \in UNION { { <<VarDecl(T, "x", NoNode), Assignment(ID("x"), e)>>,
                           <<VarDecl(T, "x", e)>>,
                           <<VarDecl(T, "x", NoNode), BinaryOp("==", e, ID("x"))>> }
                         : <<T, e>> \in (ValueTypes \cup {"Z"}) \X Literals } }

\* --- names: identifiers, field accesses and method calls ------------------

Method_m == MethodDecl("int", "m", <<>>, Compound(<<>>))

Method_n == MethodDecl("String", "n", <<ParamDecl("int", "a")>>, Compound(<<>>))

\* A { int f; int m() }, B { boolean g; String n(int a); p }, C { char h },
\* with B and C on the chain of A or unrelated, A declared first or last,
\* and with a cyclic chain
NameHierarchies(p) ==
    LET A(e) == ClassDecl("A", e, <<VarDecl("int", "f", NoNode)>>, <<Method_m>>)
        B(e) == ClassDecl("B", e, <<VarDecl("boolean", "g", NoNode)>>, <<Method_n, p>>)
        C(e) == ClassDecl("C", e, <<VarDecl("char", "h", NoNode)>>, <<>>)
    IN  { <<A(""), B("A"), C("B")>>, <<C("B"), B("A"), A("")>>,
          <<A(""), B(""), C("")>>, <<A("B"), B("A"), C("")>> }

Arguments == SeqsUpTo({Constant("int"), Constant("char")}, MaxArgs)

NameProbes ==
    { ID(n) : n \in {"f", "g", "h", "m", "A", "q", "x", "a"} }
    \cup { FieldAccess(o, n) : o \in {This, ID("x")},
                               n \in {"f", "g", "h", "m", "n", "A", "q"} }
    \cup { MethodCall(o, n, args) : o \in {This, ID("x")},
                                    n \in {"m", "n", "f", "A", "q"}, args \in Arguments }

NamePrograms ==
    UNION { NameHierarchies(Method_p(<<ParamDecl("int", "a")>>,
                                     <<VarDecl(T, "x", NoNode), e>>))
          : <<T, e>> \in {"A", "B", "C", "int"} \X NameProbes }

\* --- scopes and loops -----------------------------------------------------

Cond == BinaryOp("==", Constant("int"), Constant("int"))

Leaves == {Break, ID("x")}

Decls == SeqsUpTo({VarDecl("int", "x", NoNode), VarDecl("boolean", "x", NoNode)}, MaxDecls)

Blocks == { Compound(d \o s) : d \in Decls, s \in SeqsUpTo(Leaves, 1) }

Inner == Leaves \cup Blocks

Inits == {NoNode, DeclList(<<VarDecl("boolean", "x", NoNode)>>),
          DeclList(<<VarDecl("int", "x", NoNode), VarDecl("int", "x", NoNode)>>),
          Assignment(ID("x"), Constant("int"))}

Loops(body) == {While(2, Cond, body), For(2, NoNode, Cond, NoNode, body)}

Controls ==
    { While(1, Cond, i) : i \in Inner }
    \cup { For(1, init, Cond, NoNode, i) : init \in Inits, i \in Inner }
    \cup { For(1, NoNode, NoNode, ID("x"), Break), For(1, NoNode, ID("x"), NoNode, Break) }
    \cup { If(Cond, i, e) : i \in Inner,
                            e \in {NoNode, Break,
                                   Compound(<<VarDecl("boolean", "x", NoNode), ID("x")>>)} }
    \cup { If(c, Break, NoNode) : c \in {Constant("boolean"), ID("x")} }
    \cup { While(1, c, Break) : c \in {Constant("boolean"), ID("x")} }
    \cup UNION { { While(1, Cond, Compound(<<l>> \o t)), For(1, NoNode, Cond, NoNode,
                                                               Compound(<<l>> \o t)) }
                 : l \in UNION { Loops(b) : b \in {Break, Compound(<<>>),
                                                    If(Cond, Break, NoNode)} },
                   t \in SeqsUpTo(Leaves, 1) }

ScopeBodies ==
    { d \o <<s>> \o t : d \in {<<>>, <<VarDecl("int", "x", NoNode)>>},
                        s \in Controls, t \in SeqsUpTo(Leaves, 1) }

ParamBodies ==
    { d \o <<ID("x")>> : d \in Decls }

ScopePrograms ==
    { <<ClassDecl("A", "", <<>>, <<Method_p(<<>>, body)>>)>> : body \in ScopeBodies }
    \cup { <<ClassDecl("A", "", <<>>, <<MainMethodDecl("x", Compound(body))>>)>>
           : body \in ScopeBodies }
    \cup { <<ClassDecl("A", "", <<VarDecl("char", "x", NoNode)>>,
                      <<Method_p(params, body)>>)>>
           : params \in SeqsUpTo({ParamDecl("int", "x"), ParamDecl("boolean", "x"),
                                  ParamDecl("int", "a")}, MaxDecls),
             body \in ParamBodies }

\* --- class declarations ---------------------------------------------------

Method_main == MainMethodDecl("args", Compound(<<>>))

HierarchyPrograms ==
    UNION { { <<A, B>>, <<B, A>>, <<A, B, A>>, <<B>> }
          : A \in { ClassDecl("A", e, <<VarDecl("int", "f", NoNode)>>, m)
                    : e \in {"", "B", "A", "Z"}, m \in {<<>>, <<Method_main>>} },
            B \in { ClassDecl("B", e, f, m)
                    : e \in {"", "A", "Z"},
                      f \in { <<>>, <<VarDecl("int", "g", NoNode)>>,
                              <<VarDecl("int", "f", NoNode)>>,
                              <<VarDecl("int", "g", NoNode), VarDecl("char", "g", NoNode)>>,
                              <<VarDecl("A", "g", NoNode)>>,
                              <<VarDecl("int", "A", NoNode)>> },
                      m \in { <<>>, <<Method_m>>, <<Method_m, Method_m>>, <<Method_main>>,
                              <<Method_main, Method_main>>,
                              <<MethodDecl("int", "g", <<>>, Compound(<<>>))>>,
                              <<MethodDecl("A", "m", <<>>, Compound(<<>>))>>,
                              <<MethodDecl("int", "m", <<ParamDecl("A", "a")>>,
                                           Compound(<<>>))>> } } }

\* --- this in the main method -------------------------------------------------

MainPrograms ==
    { <<ClassDecl("A", "", <<VarDecl("int", "f", NoNode)>>,
                  <<MainMethodDecl("args", Compound(<<e>>))>>)>>
      : e \in {This, FieldAccess(This, "f"), ID("args"), ID("f")} }

Programs ==
    TypePrograms \cup LiteralPrograms \cup NamePrograms \cup ScopePrograms
    \cup HierarchyPrograms \cup MainPrograms

(***************************************************************************)
(* mj_code_aux.py: the CodeGenerator object after construction             *)
(***************************************************************************)
\* None is 0 for a block reference and "" for a register or a name; cfg and
\* class_cfg are the cfg attributes set on the method and class nodes, blocks the
\* BasicBlock objects created so far, seen_fields the local of visit_ClassDecl
CodeGenerator ==
    [current_block |-> 0, exit_block |-> 0, current_class |-> "", return_reg |-> "",
     class_fields |-> <<>>, break_target |-> 0, global_counter |-> 0,
     versions |-> ("_glob_" :> 0), fname |-> "_glob_", code |-> <<>>, text |-> <<>>,
     name_map |-> <<>>, blocks |-> <<>>, cfg |-> <<>>, class_cfg |-> <<>>,
     string_literals |-> <<>>, seen_fields |-> {}, gen_loc |-> "", raised |-> FALSE]

(***************************************************************************)
(* mj_analysis.py: the DataFlow object after construction                  *)
(***************************************************************************)
\* calls is the history of the method calls visit_ClassDecl has made on the object,
\* raised the exception that left the visitor ("" while none)
DataFlow == [code |-> <<>>, current_func |-> "", calls |-> <<>>, raised |-> ""]

(***************************************************************************)
(* The specification                                                       *)
(***************************************************************************)
Init ==
    /\ prog \in Programs
    /\ gen = CodeGenerator
    /\ opt = DataFlow
    /\ run = "first"
    /\ pc = "build"
    /\ agenda = SB_visit_Program(prog)
    /\ global_symtab = EmptyTable
    /\ class_symtab = EmptyTable
    /\ superclass = EmptyTable
    /\ current_class = ""
    /\ scope_stack = <<>>
    /\ current_class_name = ""
    /\ current_method_return_type = NoneT
    /\ current_loop = 0
    /\ main_declared = FALSE
    /\ output = <<>>
    /\ exit_code = -1
    /\ last = NoLast

Next ==
    \/ SB_visit_Program_register
    \/ SB_visit_ClassDecl
    \/ SB_ClassDecl_exit
    \/ SB_visit_VarDecl
    \/ SB_visit_MethodDecl
    \/ SB_visit_MainMethodDecl
    \/ SB_return
    \/ SA_visit_Program
    \/ SA_visit_ClassDecl
    \/ SA_ClassDecl_exit
    \/ SA_visit_VarDecl
    \/ SA_visit_MethodDecl
    \/ SA_MethodDecl_exit
    \/ SA_visit_MainMethodDecl
    \/ SA_MainMethodDecl_exit
    \/ SA_visit_Compound
    \/ SA_Compound_exit
    \/ SA_visit_If
    \/ SA_If_iffalse
    \/ SA_If_exit
    \/ SA_visit_While
    \/ SA_While_exit
    \/ SA_visit_For
    \/ SA_For_cond
    \/ SA_For_exit
    \/ SA_visit_Break
    \/ SA_visit_Expr
    \/ SA_return

Spec == Init /\ [][Next]_vars

(***************************************************************************)
(* A second visit of an AST that the analyzer accepted: by the analyzer    *)
(* that made the first one, or by a new SemanticAnalyzer on the same       *)
(* global table                                                            *)
(***************************************************************************)
SA_visit_again ==
    /\ pc = "done" /\ run = "first"
    /\ \E again \in {"same", "new"} :
          /\ run' = again
          /\ IF again = "new"
             THEN /\ scope_stack' = push_scope(<<>>)
                  /\ main_declared' = FALSE
                  /\ current_class_name' = ""
                  /\ current_method_return_type' = NoneT
                  /\ current_loop' = 0
             ELSE UNCHANGED analyzer_vars
    /\ pc' = "sema"
    /\ agenda' = <<Item("SA_visit_Program", NoNode, 0)>>
    /\ last' = Last("SA_visit_again", "", "", NoneT, NoneT, NoneT, "")
    /\ UNCHANGED <<prog, gen, opt, output, exit_code, builder_vars>>

NextTwice == Next \/ SA_visit_again

SpecTwice == Init /\ [][NextTwice]_vars

(***************************************************************************)
(* mj_code_aux.py: lowering of the annotated AST to MJIR                   *)
(*                                                                         *)
(* An instruction is a tuple of strings.  The generator object is threaded *)
(* through the handlers as the record g; g.gen_loc is the gen_loc the last *)
(* visited expression node received, g.raised says an exception left the   *)
(* visitor.  Blocks are referred to by their position in g.blocks.         *)
(***************************************************************************)
MaxTemp == 60

\* the names the lowered programs declare, and the register names made of them
VarNames == {"x", "i", "b", "o", "a", "n", "args"}

Renamed == {v \o "." \o ToString(k) : v \in VarNames, k \in 2..4}

\* s.startswith("%")
startswith_percent(s) ==
    s \in {"%" \o n : n \in VarNames \cup Renamed \cup {"this"}}
          \cup {"%" \o ToString(k) : k \in 0..MaxTemp}

\* s[1:].isdigit() for a register name s
isdigit(s) == s \in {"%" \o ToString(k) : k \in 0..MaxTemp}

\* "." in s
has_dot(s) ==
    s \in {"%" \o n : n \in Renamed} \cup Renamed
          \cup {"@.str." \o ToString(k) : k \in 0..MaxTemp}
          \cup {"%" \o o \o "." \o f : o \in VarNames \cup {"this"}, f \in VarNames}

\* node.type = ... as the semantic analysis leaves it on an expression node
typed(node, typename) == ("typename" :> typename) @@ node

\* a literal with its source text; for a string literal text is the payload,
\* value[1:-1], and quoted(text) is the value of the token
quoted(text) == "\"" \o text \o "\""

Literal(type, text) == ("text" :> text) @@ Constant(type)

Return(expr) == [k |-> "Return", expr |-> expr]

AssertStmt(coord, expr) == [k |-> "Assert", coord |-> coord, expr |-> expr]

PrintStmt(expr) == [k |-> "Print", expr |-> expr]

\* mj_block.BasicBlock(label): a new block, g.blocks[Len(g.blocks)] afterwards
BasicBlock(g, label) ==
    [g EXCEPT !.blocks = Append(@, [label |-> label, instructions |-> <<>>,
                                    next_block |-> 0])]

\* self.current_block.append(instr)
append(g, instr) ==
    IF g.raised THEN g
    ELSE IF g.current_block = 0 THEN [g EXCEPT !.raised = TRUE]
    ELSE [g EXCEPT !.blocks[g.current_block].instructions = Append(@, instr)]

\* self.current_block.next_block = b
set_next_block(g, b) ==
    IF g.raised \/ g.current_block = 0 THEN [g EXCEPT !.raised = TRUE]
    ELSE [g EXCEPT !.blocks[g.current_block].next_block = b]

\* the last instruction of the current block is a jump
ends_in_jump(g) ==
    LET instructions == g.blocks[g.current_block].instructions
    IN  instructions # <<>> /\ instructions[Len(instructions)][1] = "jump"

\* new_temp: the name it returns and the generator afterwards
temp_name(g) == "%" \o ToString(g.versions[g.fname])

\* a new_temp that hands out the same name again
new_temp_reused(g) == g

new_temp(g) == [g EXCEPT !.versions[g.fname] = @ + 1]

\* new_text: likewise
text_name(g, typename) == "@." \o typename \o "." \o ToString(g.versions["_glob_"])

new_text(g) == [g EXCEPT !.versions["_glob_"] = @ + 1]

\* mj_block.EmitBlocks: the instructions of a block and of the blocks after it
RECURSIVE EmitBlocks(_, _)
EmitBlocks(blocks, b) ==
    IF b = 0 THEN <<>>
    ELSE blocks[b].instructions \o EmitBlocks(blocks, blocks[b].next_block)

RECURSIVE CG_visit(_, _)

\* an exception leaves the handler
raise(g) == [g EXCEPT !.raised = TRUE]

\* target = self.new_temp(), the instruction with the target as its last operand,
\* and the target as the gen_loc
emit_temp(g, instr) ==
    [append(new_temp(g), Append(instr, temp_name(g))) EXCEPT !.gen_loc = temp_name(g)]

CG_visit_Constant(node, g) ==
    IF g.current_block # 0
    THEN IF node.value = "int"
         THEN emit_temp(g, <<"literal_int", node.text>>)
         ELSE [new_text(g) EXCEPT !.text = <<<<"global_String", text_name(g, "str"),
                                               node.text>>>> \o @,
                                  !.gen_loc = text_name(g, "str")]
    ELSE IF node.value = "str"
         THEN [new_text(g) EXCEPT !.text = <<<<"global_String", text_name(g, "str"),
                                               quoted(node.text)>>>> \o @,
                                  !.gen_loc = text_name(g, "str")]
         ELSE [g EXCEPT !.gen_loc = node.text]

CG_visit_This(node, g) == [g EXCEPT !.gen_loc = "%this"]

CG_visit_ID(node, g) ==
    IF node.name \notin DOMAIN g.name_map THEN raise(g)
    ELSE LET mapped == g.name_map[node.name]
             reg_name == IF startswith_percent(mapped) THEN mapped ELSE "%" \o mapped
         IN  IF node.typename \notin {"int", "boolean", "char"}
             THEN [g EXCEPT !.gen_loc = reg_name]
             ELSE emit_temp(g, <<"load_" \o node.typename, reg_name>>)

op_map ==
    [op \in BinOps |->
        CASE op = "+" -> "add_int" [] op = "-" -> "sub_int" [] op = "*" -> "mul_int"
          [] op = "/" -> "div_int" [] op = "%" -> "mod_int" [] op = "==" -> "eq_int"
          [] op = "!=" -> "ne_int" [] op = "<" -> "lt_int" [] op = "<=" -> "le_int"
          [] op = ">" -> "gt_int" [] op = ">=" -> "ge_int" [] op = "&&" -> "and_boolean"
          [] op = "||" -> "or_boolean"]

\* the load of an operand that needs_load, and the operand afterwards
load_operand(g, loc, typename) ==
    IF has_dot(loc) THEN emit_temp(g, <<"load_" \o typename, loc>>)
    ELSE [g EXCEPT !.gen_loc = loc]

\* visit_BinaryOp once both operands are loaded: the operation, and the load of
\* a product that is compared
CG_BinaryOp_op(node, left, g4) ==
    LET g5 == emit_temp(g4, <<op_map[node.op], left, g4.gen_loc>>)
    IN  IF node.op = "*" /\ "parent_op" \in DOMAIN node /\ node.parent_op = "=="
        THEN emit_temp(g5, <<"load_" \o node.typename, g5.gen_loc>>)
        ELSE g5

\* visit_BinaryOp after the visit of both children; first_loc is the gen_loc of
\* the child visited first
CG_BinaryOp_load(node, first_loc, g2) ==
    LET lloc == IF node.op = "==" THEN g2.gen_loc ELSE first_loc
        rloc == IF node.op = "==" THEN first_loc ELSE g2.gen_loc
        g3 == load_operand(g2, lloc, node.lvalue.typename)
    IN  IF lloc = "" \/ rloc = "" THEN raise(g2)
        ELSE CG_BinaryOp_op(node, g3.gen_loc,
                            load_operand(g3, rloc, node.rvalue.typename))

\* an == visits its right operand first
CG_visit_BinaryOp(node, g) ==
    LET child(n) == ("parent_op" :> node.op) @@ n
        first == child(IF node.op = "==" THEN node.rvalue ELSE node.lvalue)
        second == child(IF node.op = "==" THEN node.lvalue ELSE node.rvalue)
        g1 == CG_visit(first, g)
    IN  CG_BinaryOp_load(node, g1.gen_loc, CG_visit(second, g1))

CG_UnaryOp_op(node, g1) ==
    LET operand == g1.gen_loc
        first == temp_name(g1)
        result == temp_name(new_temp(g1))
        g3 == new_temp(new_temp(g1))
    IN  IF operand = "" THEN raise(g1)
        ELSE IF node.op = "!"
        THEN [append(append(g3, <<"load_boolean", operand, first>>),
                     <<"not_boolean", first, result>>) EXCEPT !.gen_loc = result]
        ELSE IF node.op = "-"
        THEN [append(append(g3, <<"literal_int", "0", first>>),
                     <<"sub_int", first, operand, result>>) EXCEPT !.gen_loc = result]
        ELSE raise(g1)

CG_visit_UnaryOp(node, g) == CG_UnaryOp_op(node, CG_visit(node.expr, g))

CG_FieldAccess_load(node, g1) ==
    IF g1.gen_loc = "" THEN raise(g1)
    ELSE emit_temp(g1, <<"load_addr", g1.gen_loc \o "." \o node.field_name>>)

CG_visit_FieldAccess(node, g) == CG_FieldAccess_load(node, CG_visit(node.object, g))

\* a field record ("field_T", "@Class.name", value) and the parts of its strings
Field(type, class, name, value) ==
    [type |-> type, class |-> class, name |-> name, value |-> value]

field_instr(f) == <<"field_" \o f.type, "@" \o f.class \o "." \o f.name, f.value>>

\* the initialisation of the fields recorded for the class, one record at a time
RECURSIVE init_fields(_, _, _, _, _)
init_fields(g, class_name, reg, fields, i) ==
    IF i > Len(fields) THEN g
    ELSE LET f == fields[i]
             obj_loaded == temp_name(g)
             addr == temp_name(new_temp(g))
             temp == temp_name(new_temp(new_temp(g)))
             g4 == append(append(append(append(new_temp(new_temp(new_temp(g))),
                       <<"load_" \o class_name, reg, obj_loaded>>),
                       <<"load_addr", obj_loaded \o "." \o f.name, addr>>),
                       <<"literal_" \o f.type, f.value, temp>>),
                       <<"store_" \o f.type, temp, addr>>)
         IN  init_fields(IF f.value # "None" THEN g4 ELSE g, class_name, reg, fields, i + 1)

CG_visit_NewObject(node, g) ==
    LET has_target == "target_reg" \in DOMAIN node
        reg == IF has_target THEN node.target_reg ELSE temp_name(g)
        class_name == node.type.name
        g1 == [append(IF has_target THEN g ELSE new_temp(g), <<"new_@" \o class_name, reg>>)
               EXCEPT !.gen_loc = reg]
    IN  IF class_name \in DOMAIN g.class_fields
        THEN init_fields(g1, class_name, reg, g.class_fields[class_name], 1)
        ELSE g1

\* the store through the address of the field, once the object is visited
CG_Assignment_field(node, value, g3) ==
    [append(append(new_temp(g3), <<"load_addr", g3.gen_loc \o "." \o node.lvalue.field_name,
                                   temp_name(g3)>>),
            <<"store_" \o node.rvalue.typename, value, temp_name(g3)>>)
     EXCEPT !.gen_loc = ""]

\* visit_Assignment after the visit of the right-hand side
CG_Assignment_store(node, g1) ==
    LET value_type == node.rvalue.typename
        loaded == node.rvalue.k = "FieldAccess" \/ has_dot(g1.gen_loc)
        g2 == IF loaded THEN emit_temp(g1, <<"load_" \o value_type, g1.gen_loc>>) ELSE g1
        value == g2.gen_loc
    IN  IF g1.gen_loc = "" THEN raise(g1)
        ELSE IF node.lvalue.k = "ID"
        THEN LET var_name == node.lvalue.name
                 raw_name == IF var_name \in DOMAIN g1.name_map THEN g1.name_map[var_name]
                             ELSE var_name
                 reg_name == IF startswith_percent(raw_name) THEN raw_name
                             ELSE "%" \o raw_name
             IN  [append(g2, <<"store_" \o value_type, value, reg_name>>)
                  EXCEPT !.gen_loc = ""]
        ELSE IF node.lvalue.k = "FieldAccess"
        THEN CG_Assignment_field(node, value, CG_visit(node.lvalue.object, g2))
        ELSE raise(g2)

CG_visit_Assignment(node, g) == CG_Assignment_store(node, CG_visit(node.rvalue, g))

RECURSIVE CG_visit_all(_, _, _)
CG_visit_all(nodes, i, g) ==
    IF i > Len(nodes) THEN g ELSE CG_visit_all(nodes, i + 1, CG_visit(nodes[i], g))

CG_visit_VarDecl(node, g) ==
    LET var_name == node.name
        var_type == node.type.name
        reg_name == "%" \o var_name
        g0 == [g EXCEPT !.name_map = (var_name :> reg_name) @@ @]
        init == node.init
    IN  IF g.current_block # 0
        THEN LET is_new_object == init.k = "NewObject"
                 is_object_type == var_type \notin {"int", "boolean", "int[]", "char[]",
                                                    "boolean[]"}
                 is_string == init.k = "Constant" /\ init.value = "str"
                 label == IF init.text \in DOMAIN g.string_literals
                          THEN g.string_literals[init.text]
                          ELSE "@.str." \o ToString(Cardinality(DOMAIN g.string_literals))
                 g1 == IF is_string
                       THEN append(append(
                                [g0 EXCEPT !.string_literals = (init.text :> label) @@ @,
                                           !.text = <<<<"global_String", label,
                                                        init.text>>>> \o @],
                                <<"alloc_char[]_" \o ToString(Len(init.text)), reg_name>>),
                                <<"store_char[]", label, reg_name>>)
                       ELSE IF ~(is_new_object /\ is_object_type)
                       THEN append(g0, <<"alloc_" \o var_type, reg_name>>)
                       ELSE g0
                 g2 == CG_visit(("target_reg" :> reg_name) @@ init, g1)
             IN  IF init.k = "None" THEN g1
                 ELSE IF g2.gen_loc # reg_name
                 THEN IF init.k = "FieldAccess" /\ init.object.k = "This"
                      THEN append(g2, <<"store_" \o var_type, "%this." \o init.field_name,
                                        reg_name>>)
                      ELSE append(g2, <<"store_" \o var_type, g2.gen_loc, reg_name>>)
                 ELSE g2
        ELSE LET field_name == "@" \o g.current_class \o "." \o var_name
                 g1 == CG_visit(init, g0)
             IN  IF init.k # "None"
                 THEN [g1 EXCEPT !.code = Append(@, <<"field_" \o var_type, field_name,
                                                      g1.gen_loc>>)]
                 ELSE [g0 EXCEPT !.code = Append(@, <<"field_" \o var_type, field_name,
                                                      "None">>)]

CG_visit_Compound(node, g) == CG_visit_all(node.statements, 1, g)

\* the condition register, loaded when it names a variable
load_condition(g) ==
    IF startswith_percent(g.gen_loc) /\ ~isdigit(g.gen_loc)
    THEN emit_temp(g, <<"load_boolean", g.gen_loc>>)
    ELSE g

\* the jump that closes a block which does not end in one already
jump_unless_jump(g, label) ==
    IF ~ends_in_jump(g) THEN append(g, <<"jump", label>>) ELSE g

\* the blocks then_block, else_block and end_block of an if are the three after
\* the blocks that exist when the condition has been visited
CG_If_end(end_block, g8) ==
    IF g8.raised THEN g8
    ELSE append([set_next_block(append(g8, <<"jump", "%if.end">>), end_block)
                 EXCEPT !.current_block = end_block], <<"if.end:">>)

CG_If_iffalse(node, then_block, g5) ==
    LET else_label == IF node.iffalse.k # "None" THEN "if.else" ELSE "if.end"
        else_block == then_block + 1
        g7 == append([set_next_block(jump_unless_jump(g5, "%if.end"), else_block)
                      EXCEPT !.current_block = else_block], <<else_label \o ":">>)
    IN  IF g5.raised THEN g5
        ELSE CG_If_end(then_block + 2,
                       IF node.iffalse.k # "None" THEN CG_visit(node.iffalse, g7) ELSE g7)

CG_If_iftrue(node, g1) ==
    LET else_label == IF node.iffalse.k # "None" THEN "if.else" ELSE "if.end"
        then_block == Len(g1.blocks) + 1
        g3 == load_condition(BasicBlock(BasicBlock(BasicBlock(g1, "if.then"), else_label),
                                        "if.end"))
        g4 == set_next_block(append(g3, <<"cbranch", g3.gen_loc, "%if.then",
                                          "%" \o else_label>>), then_block)
    IN  IF g1.raised \/ g1.gen_loc = "" THEN raise(g1)
        ELSE CG_If_iffalse(node, then_block,
                           CG_visit(node.iftrue,
                                    append([g4 EXCEPT !.current_block = then_block],
                                           <<"if.then:">>)))

CG_visit_If(node, g) == CG_If_iftrue(node, CG_visit(node.cond, g))

\* the labels of a while carry the number new_temp handed out for it
while_label(while_id, part) == "while" \o while_id \o part

\* cond_block, body_block and end_block are the three blocks after the first
\* blocks that existed before the loop
CG_While_end(while_id, first, old_break_target, g6) ==
    IF g6.raised THEN g6
    ELSE append([set_next_block(jump_unless_jump(g6, "%" \o while_label(while_id, ".cond")),
                                first + 3)
                 EXCEPT !.current_block = first + 3,
                        !.break_target = old_break_target],
                <<while_label(while_id, ".end:")>>)

CG_While_body(node, while_id, first, g3) ==
    LET g4 == load_condition(g3)
        g5 == set_next_block(append(g4, <<"cbranch", g4.gen_loc,
                                          "%" \o while_label(while_id, ".body"),
                                          "%" \o while_label(while_id, ".end")>>),
                             first + 2)
    IN  IF g3.raised \/ g3.gen_loc = "" THEN raise(g3)
        ELSE CG_While_end(while_id, first, g3.break_target,
                          CG_visit(node.body,
                                   append([g5 EXCEPT !.current_block = first + 2,
                                                     !.break_target = first + 3],
                                          <<while_label(while_id, ".body:")>>)))

CG_visit_While(node, g) ==
    LET while_id == ToString(g.versions[g.fname])
        first == Len(g.blocks)
        g1 == BasicBlock(BasicBlock(BasicBlock(new_temp(g), while_label(while_id, ".cond")),
                                    while_label(while_id, ".body")),
                         while_label(while_id, ".end"))
        g2 == set_next_block(append(g1, <<"jump", "%" \o while_label(while_id, ".cond")>>),
                             first + 1)
    IN  IF g.raised \/ g.current_block = 0 THEN raise(g)
        ELSE CG_While_body(node, while_id, first,
                           CG_visit(node.cond,
                                    append([g2 EXCEPT !.current_block = first + 1],
                                           <<while_label(while_id, ".cond:")>>)))

\* the first name var.2, var.3, ... that is not a value of name_map
RECURSIVE new_name(_, _, _)
new_name(var_name, version, name_map) ==
    LET candidate == var_name \o "." \o ToString(version)
    IN  IF candidate \in {name_map[n] : n \in DOMAIN name_map}
        THEN new_name(var_name, version + 1, name_map)
        ELSE candidate

\* the declarations of a for initialiser, renamed where the name is already mapped
RECURSIVE For_decls(_, _, _)
For_decls(decls, i, g) ==
    IF i > Len(decls) THEN g
    ELSE LET decl == decls[i]
             renamed == new_name(decl.name, 2, g.name_map)
         IN  IF decl.name \in DOMAIN g.name_map
             THEN For_decls(decls, i + 1,
                            CG_visit([decl EXCEPT !.name = renamed],
                                     [g EXCEPT !.name_map = (decl.name :> renamed) @@ @]))
             ELSE For_decls(decls, i + 1, CG_visit(decl, g))

\* cond_block, body_block, inc_block and end_block are the four blocks after the
\* first blocks that existed before the loop
CG_For_end(first, old_name_map, g8) ==
    IF g8.raised THEN g8
    ELSE [append([set_next_block(append(g8, <<"jump", "%for.cond">>), first + 4)
                  EXCEPT !.current_block = first + 4], <<"for.end:">>)
          EXCEPT !.break_target = 0, !.name_map = old_name_map]

CG_For_next(node, first, old_name_map, g6) ==
    IF g6.raised THEN g6
    ELSE CG_For_end(first, old_name_map,
                    CG_visit(node.next,
                             append([set_next_block(append(g6, <<"jump", "%for.inc">>),
                                                    first + 3)
                                     EXCEPT !.current_block = first + 3],
                                    <<"for.inc:">>)))

CG_For_body(node, first, old_name_map, g4) ==
    IF g4.raised THEN g4
    ELSE CG_For_next(node, first, old_name_map,
                     CG_visit(node.body,
                              append([set_next_block(
                                          append(g4, <<"cbranch", g4.gen_loc, "%for.body",
                                                       "%for.end">>), first + 2)
                                      EXCEPT !.break_target = first + 4,
                                             !.current_block = first + 2],
                                     <<"for.body:">>)))

CG_For_cond(node, first, old_name_map, g2) ==
    IF g2.raised THEN g2
    ELSE CG_For_body(node, first, old_name_map,
                     CG_visit(node.cond,
                              append([set_next_block(append(g2, <<"jump", "%for.cond">>),
                                                     first + 1)
                                      EXCEPT !.current_block = first + 1],
                                     <<"for.cond:">>)))

CG_visit_For(node, g) ==
    LET g1 == BasicBlock(BasicBlock(BasicBlock(BasicBlock(g, "for.cond"), "for.body"),
                                    "for.inc"), "for.end")
    IN  CG_For_cond(node, Len(g.blocks), g.name_map,
                    IF node.init.k = "DeclList" THEN For_decls(node.init.decls, 1, g1)
                    ELSE CG_visit(node.init, g1))

CG_visit_DeclList(node, g) == CG_visit_all(node.decls, 1, g)

CG_Print_emit(node, g1) ==
    LET expr_type == node.expr.typename
        g2 == IF expr_type = "int" /\ startswith_percent(g1.gen_loc)
              THEN emit_temp(g1, <<"load_int", g1.gen_loc>>)
              ELSE g1
    IN  IF g1.raised THEN g1 ELSE append(g2, <<"print_" \o expr_type, g2.gen_loc>>)

CG_visit_PrintStmt(node, g) == CG_Print_emit(node, CG_visit(node.expr, g))

\* true_block and false_block are the two blocks after the blocks that exist
\* when the condition has been visited
CG_Assert_branch(node, str_label, g2) ==
    LET true_block == Len(g2.blocks) + 1
        false_block == Len(g2.blocks) + 2
        g4 == set_next_block(
                  append(BasicBlock(BasicBlock(g2, "assert.true"), "assert.false"),
                         <<"cbranch", g2.gen_loc, "%assert.true", "%assert.false">>),
                  false_block)
        g5 == set_next_block(
                  append(append(append([g4 EXCEPT !.current_block = false_block],
                                       <<"assert.false:">>),
                                <<"print_string", str_label>>),
                         <<"jump", "%" \o g2.blocks[g2.exit_block].label>>),
                  true_block)
    IN  IF g2.raised \/ g2.gen_loc = "" THEN raise(g2)
        ELSE set_next_block(append([g5 EXCEPT !.current_block = true_block],
                                   <<"assert.true:">>), 0)

CG_visit_AssertStmt(node, g) ==
    IF "lvalue" \notin DOMAIN node.expr THEN raise(g)
    ELSE CG_Assert_branch(
             node, text_name(g, "str"),
             CG_visit(node.expr,
                      [new_text(g) EXCEPT !.text = <<<<"global_String", text_name(g, "str"),
                                                       "assertion_fail on " \o node.coord>>>>
                                                   \o @]))

CG_visit_Break(node, g) ==
    IF g.break_target = 0 THEN raise(g)
    ELSE append(g, <<"jump", "%" \o g.blocks[g.break_target].label>>)

CG_visit_Return(node, g) ==
    IF node.expr.k # "None"
    THEN LET g1 == CG_visit(node.expr, g)
         IN  IF g1.raised \/ g1.gen_loc = "" \/ g1.return_reg = ""
             THEN raise(g1)
             ELSE append(append(g1, <<"store_" \o node.expr.typename, g1.gen_loc,
                                      g1.return_reg>>),
                         <<"jump", "%" \o g1.blocks[g1.exit_block].label>>)
    ELSE append(g, <<"return_void">>)

CG_visit(node, g) ==
    IF g.raised THEN g
    ELSE CASE node.k = "Constant" -> CG_visit_Constant(node, g)
           [] node.k = "This" -> CG_visit_This(node, g)
           [] node.k = "ID" -> CG_visit_ID(node, g)
           [] node.k = "BinaryOp" -> CG_visit_BinaryOp(node, g)
           [] node.k = "UnaryOp" -> CG_visit_UnaryOp(node, g)
           [] node.k = "FieldAccess" -> CG_visit_FieldAccess(node, g)
           [] node.k = "NewObject" -> CG_visit_NewObject(node, g)
           [] node.k = "Assignment" -> CG_visit_Assignment(node, g)
           [] node.k = "VarDecl" -> CG_visit_VarDecl(node, g)
           [] node.k = "DeclList" -> CG_visit_DeclList(node, g)
           [] node.k = "Compound" -> CG_visit_Compound(node, g)
           [] node.k = "If" -> CG_visit_If(node, g)
           [] node.k = "While" -> CG_visit_While(node, g)
           [] node.k = "For" -> CG_visit_For(node, g)
           [] node.k = "Print" -> CG_visit_PrintStmt(node, g)
           [] node.k = "Assert" -> CG_visit_AssertStmt(node, g)
           [] node.k = "Break" -> CG_visit_Break(node, g)
           [] node.k = "Return" -> CG_visit_Return(node, g)
           [] OTHER -> raise(g)

(***************************************************************************)
(* CodeGenerator: the handlers of the declarations, one action each        *)
(***************************************************************************)
front_end_vars == <<builder_vars, analyzer_vars, output, exit_code, last>>

\* a handler returns, or an exception leaves the visitor and ends the process
CG_return(g, rest) ==
    /\ gen' = g
    /\ IF g.raised THEN pc' = "raised" /\ agenda' = <<>>
       ELSE pc' = pc /\ agenda' = rest
    /\ UNCHANGED <<ast_vars, opt, front_end_vars>>

CG_visit_Program ==
    /\ pc = "codegen"
    /\ At("CG_visit_Program")
    /\ CG_return(gen, Visits(prog) \o <<Item("CG_Program_emit", NoNode, 0)>>)

\* the field records a class inherits, renamed with the prefix of the subclass
RECURSIVE inherit_fields(_, _, _, _)
inherit_fields(g, class_name, fields, i) ==
    IF i > Len(fields) THEN g
    ELSE LET new_field == [fields[i] EXCEPT !.class = class_name]
             new_field_name == field_instr(new_field)[2]
         IN  inherit_fields(
                 IF new_field_name \notin g.seen_fields
                 THEN [g EXCEPT !.code = Append(@, field_instr(new_field)),
                                !.class_fields[class_name] = Append(@, new_field),
                                !.seen_fields = @ \cup {new_field_name}]
                 ELSE g,
                 class_name, fields, i + 1)

CG_visit_ClassDecl ==
    /\ AtVisit("codegen", {"ClassDecl"})
    /\ LET node == Head(agenda).node
           class_name == node.name
           extends_name == node.extends
           g1 == [gen EXCEPT !.cfg = <<>>,
                             !.current_class = class_name,
                             !.code = Append(@, <<"class", "@" \o class_name,
                                                  IF extends_name = "" THEN "None"
                                                  ELSE extends_name>>),
                             !.class_fields = (class_name :> <<>>) @@ @,
                             !.seen_fields = {}]
           g2 == IF extends_name # "" /\ extends_name \in DOMAIN g1.class_fields
                 THEN inherit_fields(g1, class_name, g1.class_fields[extends_name], 1)
                 ELSE g1
       IN  CG_return(g2, [i \in 1..Len(node.var_decls) |->
                             Item("CG_ClassDecl_field", node.var_decls[i], 0)]
                         \o Visits(node.method_decls)
                         \o <<Item("CG_ClassDecl_emit", NoNode, 0)>> \o Tail(agenda))

\* the registration of the field record the declaration appended to self.code
register_field(field_decl, before, g1) ==
    LET instr == g1.code[Len(g1.code)]
    IN  IF ~g1.raised /\ Len(g1.code) > before /\ instr[2] \notin g1.seen_fields
        THEN [g1 EXCEPT !.class_fields[g1.current_class] =
                            Append(@, Field(field_decl.type.name, g1.current_class,
                                            field_decl.name, instr[3])),
                        !.seen_fields = @ \cup {instr[2]}]
        ELSE g1

\* one round of the loop over node.var_decls
CG_ClassDecl_field ==
    /\ pc = "codegen"
    /\ At("CG_ClassDecl_field")
    /\ CG_return(register_field(Head(agenda).node, Len(gen.code),
                                CG_visit(Head(agenda).node, gen)),
                 Tail(agenda))

\* the alloc and store of each parameter
RECURSIVE store_params(_, _, _)
store_params(g, params, i) ==
    IF i > Len(params) THEN g
    ELSE LET ptype == params[i].type.name
             reg_local == "%" \o params[i].name
         IN  store_params(
                 append(append([g EXCEPT !.name_map = (params[i].name :> reg_local) @@ @],
                               <<"alloc_" \o ptype, reg_local>>),
                        <<"store_" \o ptype, "%" \o ToString(i), reg_local>>),
                 params, i + 1)

\* the entry block of a method: the define, the return slot, the parameters
method_entry(node, g) ==
    LET return_type == node.type.name
        params == node.param_list
        fname == "@" \o g.current_class \o "." \o node.name
        entry == Len(g.blocks) + 1
        g3 == append(append([BasicBlock(BasicBlock(g, node.name \o ".entry"), "exit")
                             EXCEPT !.fname = fname,
                                    !.cfg = Append(@, entry),
                                    !.current_block = entry,
                                    !.exit_block = entry + 1,
                                    !.name_map = <<>>,
                                    !.versions = (fname :> (Len(params)
                                                  + IF return_type # "void" THEN 2 ELSE 1))
                                                 @@ @],
                            <<"define_" \o return_type, fname>>
                            \o [i \in 1..Len(params) |->
                                   params[i].type.name \o " %" \o ToString(i)]),
                     <<"entry:">>)
    IN  store_params(IF return_type # "void"
                     THEN [append(new_temp(g3), <<"alloc_" \o return_type, temp_name(g3)>>)
                           EXCEPT !.return_reg = temp_name(g3)]
                     ELSE [g3 EXCEPT !.return_reg = ""],
                     params, 1)

\* the exit block of a method: the load of the return slot and the return
method_exit(return_type, g5) ==
    LET g7 == append([set_next_block(jump_unless_jump(g5, "%exit"), g5.exit_block)
                      EXCEPT !.current_block = g5.exit_block], <<"exit:">>)
        g8 == IF g5.return_reg # ""
              THEN append(append(new_temp(g7), <<"load_" \o return_type, g5.return_reg,
                                                 temp_name(g7)>>),
                          <<"return_" \o return_type, temp_name(g7)>>)
              ELSE append(g7, <<"return_void">>)
    IN  IF g5.raised THEN g5 ELSE [g8 EXCEPT !.current_block = 0]

CG_visit_MethodDecl ==
    /\ AtVisit("codegen", {"MethodDecl"})
    /\ CG_return(method_exit(Head(agenda).node.type.name,
                             CG_visit(Head(agenda).node.body,
                                      method_entry(Head(agenda).node, gen))),
                 Tail(agenda))

\* the entry block of main
main_entry(node, g) ==
    LET fname == "@" \o g.current_class \o ".main"
        entry == Len(g.blocks) + 1
    IN  append(append([BasicBlock(BasicBlock(g, "main.entry"), "exit")
                       EXCEPT !.fname = fname,
                              !.cfg = Append(@, entry),
                              !.current_block = entry,
                              !.exit_block = entry + 1,
                              !.versions = (fname :> 1) @@ @],
                      <<"define_void", fname, "String[] %" \o node.args>>),
               <<"entry:">>)

\* the end of main: the exit label and the return go into the current block
main_exit(g4) ==
    LET g5 == IF g4.blocks[g4.current_block].label # g4.blocks[g4.exit_block].label
              THEN set_next_block(append(g4, <<"jump", "%exit">>), g4.exit_block)
              ELSE g4
    IN  IF g4.raised THEN g4
        ELSE [append(append(g5, <<"exit:">>), <<"return_void">>)
              EXCEPT !.current_block = g4.exit_block]

CG_visit_MainMethodDecl ==
    /\ AtVisit("codegen", {"MainMethodDecl"})
    /\ CG_return(main_exit(CG_visit(Head(agenda).node.body,
                                    main_entry(Head(agenda).node, gen))),
                 Tail(agenda))

\* the instructions of the blocks of each method, in the order of the methods
RECURSIVE emit_methods(_, _, _)
emit_methods(blocks, cfgs, i) ==
    IF i > Len(cfgs) THEN <<>>
    ELSE EmitBlocks(blocks, cfgs[i]) \o emit_methods(blocks, cfgs, i + 1)

\* the end of visit_ClassDecl: the blocks of the methods go into the cfg of the class
CG_ClassDecl_emit ==
    /\ pc = "codegen"
    /\ At("CG_ClassDecl_emit")
    /\ CG_return([gen EXCEPT !.class_cfg = Append(@, emit_methods(gen.blocks, gen.cfg, 1))],
                 Tail(agenda))

RECURSIVE concat(_, _)
concat(seqs, i) == IF i > Len(seqs) THEN <<>> ELSE seqs[i] \o concat(seqs, i + 1)

\* the end of visit_Program: the text section, the class records, the class cfgs
CG_Program_emit ==
    /\ pc = "codegen"
    /\ At("CG_Program_emit")
    /\ gen' = [gen EXCEPT !.code = gen.text \o @ \o concat(gen.class_cfg, 1)]
    /\ pc' = "emitted"
    /\ agenda' = Tail(agenda)
    /\ UNCHANGED <<ast_vars, opt, front_end_vars>>

(***************************************************************************)
(* The annotated programs the generator is run on                          *)
(***************************************************************************)
MaxStmts == 2

One == typed(Literal("int", "1"), "int")

Seven == typed(Literal("int", "7"), "int")

IntID(name) == typed(ID(name), "int")

Less(name) == typed(BinaryOp("<", IntID(name), One), "boolean")

Equals(name) == typed(BinaryOp("==", IntID(name), One), "boolean")

Assign(name) == Assignment(ID(name), One)

Increment(name) == Assignment(ID(name), typed(BinaryOp("+", IntID(name), One), "int"))

\* statements of a void body in which int x is declared
Simple == {Assign("x"), Return(NoNode), PrintStmt(IntID("x"))}

Branches ==
    { If(Less("x"), Assign("x"), NoNode),
      If(Less("x"), Return(NoNode), Assign("x")),
      If(Less("x"), Assign("x"), Return(NoNode)),
      If(Less("x"), If(Equals("x"), Assign("x"), NoNode), NoNode) }

GenLoops ==
    { While(1, Less("x"), b) : b \in {Assign("x"), Break, Return(NoNode)} }
    \cup { For(1, DeclList(<<VarDecl("int", "i", One)>>), Less("i"), Increment("i"), Break),
           For(1, DeclList(<<VarDecl("int", "x", One)>>), Less("x"), Increment("x"),
               Assign("x")),
           While(1, Less("x"), Compound(<<For(1, Assign("x"), Less("x"), Increment("x"),
                                              Assign("x")), Break>>)) }

Others ==
    { AssertStmt("1:1", Equals("x")),
      Assignment(ID("x"), typed(UnaryOp("-", IntID("x")), "int")),
      Break }

VoidStmts == Simple \cup Branches \cup GenLoops \cup Others

VoidBodies ==
    { Compound(<<VarDecl("int", "x", One)>> \o s) : s \in SeqsUpTo(VoidStmts, MaxStmts) }

MainBodies ==
    { Compound(<<VarDecl("int", "x", One)>> \o s) : s \in SeqsUpTo(VoidStmts, 1) }

\* statements of the body of a method that returns int and has the parameter a
IntStmts ==
    { Return(IntID("a")), Return(One), Assign("a"),
      If(Less("a"), Return(IntID("a")), NoNode),
      If(Less("a"), Return(IntID("a")), Return(One)),
      While(1, Less("a"), Return(IntID("a"))),
      Return(NoNode) }

IntBodies == { Compound(s) : s \in SeqsUpTo(IntStmts, MaxStmts) }

Method_f(body) == MethodDecl("int", "f", <<ParamDecl("int", "a")>>, body)

MethodPrograms ==
    { <<ClassDecl("A", "", <<>>, <<MethodDecl("void", "p", <<>>, body)>>)>>
      : body \in VoidBodies }
    \cup { <<ClassDecl("A", "", <<>>, <<MainMethodDecl("args", body)>>)>>
           : body \in MainBodies }
    \cup { <<ClassDecl("A", "", <<>>, <<Method_f(body)>>)>> : body \in IntBodies }
    \cup { <<ClassDecl("A", "", <<>>,
                       <<Method_f(Compound(<<s>>)),
                         MethodDecl("int", "g", <<ParamDecl("int", "a"),
                                                  ParamDecl("int", "b")>>,
                                    Compound(<<s>>)),
                         MainMethodDecl("args", Compound(<<t>>))>>)>>
           : s \in IntStmts, t \in {Return(NoNode), Return(One), Assign("a")} }

\* class Main with B b = new B(); print(b.n); in main
Class_Main ==
    ClassDecl("Main", "", <<>>,
              <<MainMethodDecl("args",
                    Compound(<<VarDecl("B", "b", NewObject("B")),
                               PrintStmt(typed(FieldAccess(typed(ID("b"), "B"), "n"),
                                               "int"))>>))>>)

InheritancePrograms ==
    UNION { { <<A, B, Class_Main>>, <<B, A, Class_Main>>, <<Class_Main, A, B>>,
              <<A, Class_Main, B>> }
          : A \in { ClassDecl("A", "", f, <<>>)
                    : f \in { <<VarDecl("int", "n", Seven)>>,
                              <<VarDecl("int", "n", NoNode)>>,
                              <<VarDecl("int", "x", NoNode), VarDecl("int", "n", Seven)>> } },
            B \in { ClassDecl("B", "A", f, <<>>)
                    : f \in { <<>>, <<VarDecl("int", "x", One)>>,
                              <<VarDecl("int", "n", One)>> } } }

\* main bodies that print string literals and initialise strings with them
MaxLiterals == 2

Hi == typed(Literal("String", "hi"), "String")

Yo == typed(Literal("String", "yo"), "String")

StringStmts ==
    { PrintStmt(Hi), PrintStmt(Yo), VarDecl("String", "s", Hi), VarDecl("String", "t", Yo) }

StringPrograms ==
    { <<ClassDecl("A", "", <<>>, <<MainMethodDecl("args", Compound(s))>>)>>
      : s \in SeqsUpTo(StringStmts, MaxLiterals) \ {<<>>} }

\* void methods whose body is a nest of while and for loops with a break in it: a
\* loop body is a break, an assignment, an inner loop, or an inner loop with a break
\* before or after it
MaxDepth == 2

RECURSIVE LoopBodies(_)
LoopBodies(d) ==
    IF d = 0 THEN {Break, Assign("x")}
    ELSE UNION { { While(1, Less("x"), b),
                   For(1, Assign("x"), Less("x"), Increment("x"), b),
                   Compound(<<While(1, Less("x"), b), Break>>),
                   Compound(<<Break, While(1, Less("x"), b)>>),
                   Compound(<<For(1, Assign("x"), Less("x"), Increment("x"), b), Break>>) }
                 : b \in LoopBodies(d - 1) }

LoopNests ==
    UNION { { While(1, Less("x"), b), For(1, Assign("x"), Less("x"), Increment("x"), b) }
            : b \in UNION { LoopBodies(d) : d \in 0..(MaxDepth - 1) } }

BreakPrograms ==
    { <<ClassDecl("A", "", <<>>,
                  <<MethodDecl("void", "p", <<>>,
                               Compound(<<VarDecl("int", "x", One)>> \o s))>>)>>
      : s \in { <<l>> : l \in LoopNests }
              \cup { <<While(1, Less("x"), b), For(1, Assign("x"), Less("x"),
                                                   Increment("x"), b)>>
                     : b \in LoopBodies(0) } }

\* void methods in which for loops declare the x of the method again: one after
\* the other and one inside the other, with an assignment to x after the loops
ForX(body) ==
    For(1, DeclList(<<VarDecl("int", "x", One)>>), Less("x"), Increment("x"), body)

RECURSIVE ForNests(_)
ForNests(d) == IF d = 0 THEN {Assign("x")} ELSE {ForX(b) : b \in ForNests(d - 1)}

RedeclPrograms ==
    { <<ClassDecl("A", "", <<>>,
                  <<MethodDecl("void", "p", <<>>,
                               Compound(<<VarDecl("int", "x", One)>> \o s
                                        \o <<Assign("x")>>))>>)>>
      : s \in SeqsUpTo(UNION {ForNests(d) : d \in 1..MaxDepth}, MaxStmts) \ {<<>>} }

\* void methods with a block, nested up to MaxDepth, that declares the x of the
\* method again: x is a local or a parameter and is printed after the block
RECURSIVE ShadowBlock(_)
ShadowBlock(d) ==
    Compound(<<VarDecl("int", "x", Seven)>>
             \o (IF d > 1 THEN <<ShadowBlock(d - 1)>> ELSE <<>>)
             \o <<Assign("x")>>)

ShadowPrograms ==
    UNION { { <<ClassDecl("A", "", <<>>,
                          <<MethodDecl("void", "p", <<>>,
                                       Compound(<<VarDecl("int", "x", One), ShadowBlock(d),
                                                  PrintStmt(IntID("x"))>>))>>)>>,
              <<ClassDecl("A", "", <<>>,
                          <<MethodDecl("void", "p", <<ParamDecl("int", "x")>>,
                                       Compound(<<ShadowBlock(d),
                                                  PrintStmt(IntID("x"))>>))>>)>> }
            : d \in 1..MaxDepth }

GenPrograms ==
    MethodPrograms \cup InheritancePrograms \cup StringPrograms \cup BreakPrograms
    \cup RedeclPrograms \cup ShadowPrograms

(***************************************************************************)
(* The specification of the code generation                                *)
(***************************************************************************)
InitGen ==
    /\ prog \in GenPrograms
    /\ gen = CodeGenerator
    /\ opt = DataFlow
    /\ run = "first"
    /\ pc = "codegen"
    /\ agenda = <<Item("CG_visit_Program", NoNode, 0)>>
    /\ global_symtab = EmptyTable
    /\ class_symtab = EmptyTable
    /\ superclass = EmptyTable
    /\ current_class = ""
    /\ scope_stack = <<>>
    /\ current_class_name = ""
    /\ current_method_return_type = NoneT
    /\ current_loop = 0
    /\ main_declared = FALSE
    /\ output = <<>>
    /\ exit_code = -1
    /\ last = NoLast

NextGen ==
    \/ CG_visit_Program
    \/ CG_visit_ClassDecl
    \/ CG_ClassDecl_field
    \/ CG_visit_MethodDecl
    \/ CG_visit_MainMethodDecl
    \/ CG_ClassDecl_emit
    \/ CG_Program_emit

SpecGen == InitGen /\ [][NextGen]_vars

(***************************************************************************)
(* mj_analysis.py: the dataflow pass over the generated code               *)
(***************************************************************************)
\* Python's "sub in text" on two strings
contains(sub, text) ==
    \E i \in 1..(Len(text) - Len(sub) + 1) : SubSeq(text, i, i + Len(sub) - 1) = sub

\* the methods an object of class DataFlow has: its own and those of NodeVisitor
DataFlowMethods == {"show", "visit", "generic_visit", "visit_Program", "visit_ClassDecl"}

\* the calls visit_ClassDecl makes on self for one method, in the order it makes them
MethodSteps ==
    <<"buildRD_blocks", "computeRD_gen_kill", "computeRD_in_out", "constant_propagation",
      "buildLV_blocks", "computeLV_use_def", "computeLV_in_out", "deadcode_elimination",
      "short_circuit_jumps", "merge_blocks", "discard_unused_allocs", "appendOptimizedCode">>

\* self.<step>(...): the attribute lookup fails for a method the object does not have
call_step(o, step) ==
    IF o.raised # "" THEN o
    ELSE IF step \notin DataFlowMethods THEN [o EXCEPT !.raised = "AttributeError"]
    ELSE [o EXCEPT !.calls = Append(@, <<o.current_func, step>>)]

RECURSIVE call_steps(_, _)
call_steps(o, i) ==
    IF i > Len(MethodSteps) THEN o ELSE call_steps(call_step(o, MethodSteps[i]), i + 1)

\* the name the pass knows a method by: main has no name attribute
method_name(method_decl) ==
    IF method_decl.k = "MainMethodDecl" THEN "main" ELSE method_decl.name

\* the loop of visit_ClassDecl over node.method_decls
RECURSIVE optimize_methods(_, _, _, _)
optimize_methods(o, class_name, method_decls, j) ==
    IF j > Len(method_decls) \/ o.raised # "" THEN o
    ELSE optimize_methods(
             call_steps([o EXCEPT !.current_func =
                                      "@" \o class_name \o "." \o method_name(method_decls[j])],
                        1),
             class_name, method_decls, j + 1)

\* the instructions of the class cfg visit_ClassDecl copies: the class and field records
IsRecord(instr) == contains("class", instr[1]) \/ contains("field", instr[1])

DF_visit_Program ==
    /\ pc = "emitted"
    /\ opt' = [opt EXCEPT !.code = gen.text]
    /\ pc' = IF prog = <<>> THEN "optimized" ELSE "dataflow"
    /\ agenda' = [c \in 1..Len(prog) |-> Item("visit", prog[c], c)]
    /\ UNCHANGED <<ast_vars, gen, front_end_vars>>

DF_visit_ClassDecl ==
    /\ AtVisit("dataflow", {"ClassDecl"})
    /\ LET node == Head(agenda).node
           bb == gen.class_cfg[Head(agenda).ref]
           o == optimize_methods([opt EXCEPT !.code = @ \o SelectSeq(bb, IsRecord)],
                                 node.name, node.method_decls, 1)
       IN  /\ opt' = o
           /\ IF o.raised # "" THEN pc' = "flow_raised" /\ agenda' = <<>>
              ELSE /\ pc' = IF Tail(agenda) = <<>> THEN "optimized" ELSE "dataflow"
                   /\ agenda' = Tail(agenda)
    /\ UNCHANGED <<ast_vars, gen, front_end_vars>>

NextFlow ==
    \/ NextGen
    \/ DF_visit_Program
    \/ DF_visit_ClassDecl

SpecFlow == InitGen /\ [][NextFlow]_vars

(***************************************************************************)
(* What the program text declares, read off the AST alone                  *)
(***************************************************************************)
DeclaredClasses == {prog[i].name : i \in 1..Len(prog)}

DeclOf(name) == prog[CHOOSE i \in 1..Len(prog) : prog[i].name = name]

RECURSIVE SuperclassesFrom(_, _)
SuperclassesFrom(name, seen) ==
    LET super == DeclOf(name).extends
    IN  IF super = "" \/ super \notin DeclaredClasses \/ super \in seen THEN seen
        ELSE SuperclassesFrom(super, seen \cup {super})

\* the classes on the superclass chain of a class
Superclasses(name) == SuperclassesFrom(name, {})

\* the class itself and the classes on its chain
Chain(name) == {name} \cup Superclasses(name)

FieldsOf(name) == {DeclOf(name).var_decls[i].name : i \in 1..Len(DeclOf(name).var_decls)}

MethodsOf(name) ==
    {DeclOf(name).method_decls[i].name :
        i \in {j \in 1..Len(DeclOf(name).method_decls) :
                  DeclOf(name).method_decls[j].k = "MethodDecl"}}

(***************************************************************************)
(* Claims                                                                  *)
(***************************************************************************)

\* C1: a run that an error ends has stopped at the first error met in
\* traversal order with exactly one SemanticError diagnostic and exit
\* status 1, and a run that meets no error prints nothing and does not exit.
C1_FirstErrorStops ==
    /\ Len(output) <= 1
    /\ pc \in {"exited", "crashed"} => Len(output) = 1
    /\ pc = "exited" => exit_code = 1
    /\ pc \in {"build", "sema", "done"} => (output = <<>> /\ exit_code = -1)

\* the compatibility the specification states for a target of type L and a
\* value of type R, over the extends declarations of the program text
SpecCompatible(L, R) ==
    \/ L = R
    \/ /\ L.k = "object" /\ R.k = "object"
       /\ R.n \in DeclaredClasses
       /\ L.n \in Chain(R.n)
    \/ L = CharArrayType /\ R = StringType

\* C2: an assignment or a declaration initializer whose target has type L
\* and whose value has type R is accepted if and only if L and R are the same
\* type, or R is a class that is L or has L on its superclass chain, or L is
\* char[] and R is String; every other pair fails with ASSIGN_TYPE_MISMATCH.
C2_AssignCompatible ==
    (/\ last.h \in {"Assignment", "SA_VarDecl"}
     /\ last.lt # NoneT /\ last.rt # NoneT)
    => /\ last.err = "" <=> SpecCompatible(last.lt, last.rt)
       /\ last.err # "" => last.err = "ASSIGN_TYPE_MISMATCH"

\* the names visible as locals or parameters: every scope but the base one
Locals == IF Len(scope_stack) < 2 THEN <<>> ELSE SubSeq(scope_stack, 2, Len(scope_stack))

\* the fields declared by a class or by a class on its superclass chain
ChainFields(name) == UNION {FieldsOf(c) : c \in Chain(name)}

\* C3: a bare identifier in a method of class C resolves to the innermost
\* local or parameter of that name, otherwise to a field of C or of a class
\* on C's superclass chain, otherwise to a class of the program; a name that
\* is none of these fails with UNDECLARED_NAME.
C3_NameResolution ==
    (last.h = "ID" /\ pc # "done" /\ current_class_name \in DeclaredClasses)
    => IF lookup(Locals, last.nm) # NoneT
       THEN last.err = "" /\ last.ty = lookup(Locals, last.nm)
       ELSE IF last.nm \in ChainFields(current_class_name) \cup DeclaredClasses
       THEN last.err = ""
       ELSE last.err = "UNDECLARED_NAME"

\* the methods declared by a class or by a class on its superclass chain
ChainMethods(name) == UNION {MethodsOf(c) : c \in Chain(name)}

\* C5: a call o.m(args) with o of class D resolves m in D and then in the
\* classes on D's superclass chain: UNDECLARED_METHOD is raised only when no
\* class on the chain declares m.
C5_MethodOnChain ==
    (/\ last.h = "MethodCall"
     /\ last.lt.k = "object" /\ last.lt.n \in DeclaredClasses
     /\ last.err = "UNDECLARED_METHOD")
    => last.nm \notin ChainMethods(last.lt.n)

\* C6: a field access o.f is accepted if and only if o has an object type and
\* f is a field declared in o's class or in a class on its superclass chain;
\* otherwise the error is OBJECT_TYPE_MUST_BE_A_CLASS when o is not an object
\* and UNDECLARED_FIELD when f is not such a field.
C6_FieldOnChain ==
    (/\ last.h = "FieldAccess"
     /\ last.lt # NoneT /\ last.err # "nontermination"
     /\ last.lt.k = "object" => last.lt.n \in DeclaredClasses)
    => IF last.lt.k # "object" THEN last.err = "OBJECT_TYPE_MUST_BE_A_CLASS"
       ELSE IF last.nm \in ChainFields(last.lt.n) THEN last.err = ""
       ELSE last.err = "UNDECLARED_FIELD"

\* C7: a binary expression whose operands have different types fails with
\* BINARY_EXPRESSION_TYPE_MISMATCH, in either operand order.
C7_IdenticalOperands ==
    (/\ last.h = "BinaryOp"
     /\ last.lt # NoneT /\ last.rt # NoneT /\ last.err # "nontermination"
     /\ last.lt # last.rt)
    => last.err = "BINARY_EXPRESSION_TYPE_MISMATCH"

\* C8: an accepted binary expression has the operand type when its operator
\* is arithmetic and boolean when it is relational or logical; && and || on
\* operands that are not boolean fail with UNSUPPORTED_BINARY_OPERATION.
C8_BinaryResultType ==
    (last.h = "BinaryOp" /\ last.lt # NoneT /\ last.rt # NoneT)
    => /\ (last.err = "" /\ last.op \in ArithOps) => last.ty = last.lt
       /\ (last.err = "" /\ last.op \in RelOps \cup LogicOps) => last.ty = BooleanType
       /\ (last.lt = last.rt /\ last.op \in LogicOps /\ last.lt # BooleanType)
          => last.err = "UNSUPPORTED_BINARY_OPERATION"

\* the steps that leave a method, a main method, a Compound or the body of
\* an if, a while or a for
ScopeExits == {"SA_MethodDecl_exit", "SA_MainMethodDecl_exit", "SA_Compound_exit",
               "SA_If_exit", "SA_While_exit", "SA_For_exit"}

Innermost(stack) == stack[Len(stack)]

Enclosing(stack) == SubSeq(stack, 1, Len(stack) - 1)

\* a declaration of a variable whose type is known: it fails if and only if
\* the innermost scope has the name; accepted, it changes the innermost scope
\* alone, where the name now has the declared type
C4_VarDecl ==
    (AtVisit("sema", {"VarDecl"}) /\ last'.err # "UNDECLARED_CLASS")
    => LET name == Head(agenda).node.name
       IN  /\ last'.err = "ALREADY_DECLARED_NAME" <=> name \in DOMAIN Innermost(scope_stack)
           /\ last'.err = ""
              => /\ Enclosing(scope_stack') = Enclosing(scope_stack)
                 /\ DOMAIN Innermost(scope_stack') = DOMAIN Innermost(scope_stack) \cup {name}
                 /\ \A n \in DOMAIN Innermost(scope_stack) :
                        Innermost(scope_stack')[n] = Innermost(scope_stack)[n]
                 /\ lookup(scope_stack', name) = last'.lt

\* the parameters of a method go to a new scope: a repeated name fails
C4_MethodDecl ==
    (/\ AtVisit("sema", {"MethodDecl"})
     /\ last'.err \in {"", "PARAMETER_ALREADY_DECLARED"})
    => LET param_list == Head(agenda).node.param_list
       IN  /\ last'.err = "PARAMETER_ALREADY_DECLARED"
              <=> \E i, j \in 1..Len(param_list) :
                      i < j /\ param_list[i].name = param_list[j].name
           /\ last'.err = ""
              => /\ Enclosing(scope_stack') = scope_stack
                 /\ DOMAIN Innermost(scope_stack')
                    = {param_list[i].name : i \in 1..Len(param_list)}

\* a Compound and the body of an if, a while or a for get a new, empty scope
C4_Push ==
    /\ (AtVisit("sema", {"Compound", "If", "While", "For"}) /\ pc' = "sema")
       => scope_stack' = Append(scope_stack, EmptyTable)
    /\ (pc = "sema" /\ At("SA_If_iffalse") /\ Head(agenda).node.k # "None")
       => scope_stack' = Append(Head(agenda).entry, EmptyTable)

\* leaving gives back the scopes as they were when the statement was entered
C4_Pop ==
    /\ (pc = "sema" /\ agenda # <<>> /\ Head(agenda).op \in ScopeExits)
       => scope_stack' = Head(agenda).entry
    /\ (pc = "sema" /\ At("SA_If_iffalse") /\ Head(agenda).node.k = "None")
       => scope_stack' = Head(agenda).entry

\* C4: each method body, Compound and if/while/for body opens a scope that is
\* popped on exit; declaring a name of the innermost scope fails with
\* ALREADY_DECLARED_NAME (PARAMETER_ALREADY_DECLARED for a parameter), a name
\* of an enclosing scope only is accepted and shadowed, and after the exit
\* the name has the outer declaration's type again.
C4_Scopes == [][C4_VarDecl /\ C4_MethodDecl /\ C4_Push /\ C4_Pop]_vars

\* a declaration has just shadowed one of another type in an enclosing scope
\* of the same method, and the scope it is in is about to be left
C4_Witness ==
    /\ last.h = "SA_VarDecl" /\ last.err = ""
    /\ agenda # <<>> /\ Head(agenda).op \in ScopeExits
    /\ Len(scope_stack) > 2
    /\ lookup(Head(agenda).entry, last.nm) \notin {NoneT, last.lt}
    /\ \E i \in 2..Len(scope_stack) - 1 : last.nm \in DOMAIN scope_stack[i]
    /\ lookup(scope_stack, last.nm) = last.lt

\* the loops whose visit has begun and is not over, innermost first
LoopMarks == {"SA_While_exit", "SA_For_cond", "SA_For_exit"}

IsLoopMark(m) == m.op \in LoopMarks

PendingLoops == SelectSeq(agenda, IsLoopMark)

\* C9: current_loop is null outside every loop and is the innermost loop
\* being analysed otherwise, restored to the enclosing loop (or null) when a
\* loop is left; a break is accepted if and only if it is inside a loop and
\* fails with WRONG_BREAK_STATEMENT otherwise.
C9_BreakInLoop ==
    /\ pc = "sema"
       => current_loop = IF PendingLoops = <<>> THEN 0 ELSE Head(PendingLoops).node.coord
    /\ last.h = "SA_Break"
       => /\ last.err = "" <=> PendingLoops # <<>>
          /\ last.err # "" => last.err = "WRONG_BREAK_STATEMENT"

\* an inner loop has just been left inside an outer loop, a break comes next
C9_Witness ==
    /\ pc = "sema"
    /\ last.h \in {"SA_While_exit", "SA_For_exit"}
    /\ current_loop = 1
    /\ AtVisit("sema", {"Break"})

\* C10: every class name is in the global table before any class is
\* visited, so `class D extends C` is accepted if and only if the program
\* declares C, before or after D; D's superclass link is then C, and a
\* missing C fails with UNDECLARED_CLASS.
C10_ClassesFirst ==
    /\ last.h \in {"SB_ClassDecl", "SB_VarDecl", "SB_MethodDecl", "SB_MainMethodDecl"}
       => DeclaredClasses \subseteq DOMAIN global_symtab
    /\ (last.h = "SB_ClassDecl" /\ DeclOf(last.nm).extends # "")
       => LET C == DeclOf(last.nm).extends
          IN  /\ last.err = "" <=> C \in DeclaredClasses
              /\ last.err = "" => superclass[last.nm] = C
              /\ last.err # "" => last.err = "UNDECLARED_CLASS"

\* a class that extends a class declared after it has been accepted
C10_Witness ==
    /\ last.h = "SB_ClassDecl" /\ last.err = ""
    /\ \E i, j \in 1..Len(prog) :
          /\ i < j
          /\ prog[i].name = last.nm
          /\ prog[j].name = prog[i].extends
    /\ superclass[last.nm] = DeclOf(last.nm).extends

\* the visits of members of the given kinds that the builder has still to
\* make in the class it is in, the one at hand included
PendingMembers(kinds) ==
    CHOOSE n \in 0..Len(agenda) :
        /\ \A k \in 1..n : agenda[k].op = "visit" /\ agenda[k].node.k \in kinds
        /\ n < Len(agenda) => ~(agenda[n + 1].op = "visit" /\ agenda[n + 1].node.k \in kinds)

\* the name a member is declared with
MemberName(decl) == IF decl.k = "MainMethodDecl" THEN "main" ELSE decl.name

\* the names of the members of the class declared before the one at hand
EarlierMembers(decls, kinds) ==
    {MemberName(decls[j]) : j \in 1..(Len(decls) - PendingMembers(kinds))}

\* C11: in the builder a field of class C fails with ALREADY_DECLARED_FIELD
\* if and only if C already declared a field of that name, and a method
\* fails with ALREADY_DECLARED_METHOD if and only if C already declared a
\* method of that name: a method named like a field, and a member named like
\* a class of the program, are accepted.
C11_SeparateNames ==
    [][/\ AtVisit("build", {"VarDecl"})
          => (last'.err = "ALREADY_DECLARED_FIELD"
              <=> MemberName(Head(agenda).node)
                    \in EarlierMembers(DeclOf(current_class).var_decls, {"VarDecl"}))
       /\ AtVisit("build", {"MethodDecl", "MainMethodDecl"})
          => (last'.err = "ALREADY_DECLARED_METHOD"
              <=> MemberName(Head(agenda).node)
                    \in EarlierMembers(DeclOf(current_class).method_decls,
                                       {"MethodDecl", "MainMethodDecl"}))]_vars

\* the type names the specification calls known: the primitives, the
\* built-in types and the classes of the program
KnownTypeNames == BuiltinNames \cup DeclaredClasses

\* C12: the builder accepts a method whose return type and parameter types
\* are known types and records the parameter types in declaration order; it
\* fails with RETURN_TYPE_MISMATCH only for an unknown return type and with
\* UNDECLARED_CLASS only for a parameter of unknown type.
C12_MethodSignature ==
    [][AtVisit("build", {"MethodDecl"})
       => LET node == Head(agenda).node
              param_types == [i \in 1..Len(node.param_list) |-> node.param_list[i].type.name]
          IN  /\ last'.err = "RETURN_TYPE_MISMATCH" => node.type.name \notin KnownTypeNames
              /\ last'.err = "UNDECLARED_CLASS"
                 => \E i \in 1..Len(param_types) : param_types[i] \notin KnownTypeNames
              /\ last'.err = "" => last'.ty.params = param_types]_vars

\* the program is one class whose only member is a main method whose body
\* begins with `if (true) break;`
BeginsWithIfTrueBreak ==
    /\ Len(prog) = 1
    /\ prog[1].var_decls = <<>>
    /\ Len(prog[1].method_decls) = 1
    /\ prog[1].method_decls[1].k = "MainMethodDecl"
    /\ prog[1].method_decls[1].body.statements # <<>>
    /\ prog[1].method_decls[1].body.statements[1] = If(Constant("boolean"), Break, NoNode)

\* C13: on a program whose main body begins with `if (true) break;` the
\* analysis fails with WRONG_BREAK_STATEMENT, its first and only error: the
\* literal true has type boolean and passes the condition check.
C13_IfTrueBreak ==
    (BeginsWithIfTrueBreak /\ pc \notin {"build", "sema"})
    => pc = "exited" /\ output = <<"WRONG_BREAK_STATEMENT">>

\* the visit of the main method has begun and is not over
InMain == \E k \in 1..Len(agenda) : agenda[k].op = "SA_MainMethodDecl_exit"

\* C14: `this` has type ObjectType(current class) inside a regular method,
\* and a use of `this` inside the body of the main method is rejected.
C14_ThisInMain ==
    (last.h = "This" /\ pc \in {"sema", "exited", "crashed", "hung"})
    => IF InMain THEN last.err # ""
       ELSE last.err = "" /\ last.ty = ObjectType(current_class_name)

\* C15: a second run of the analyzer over an AST that the first run
\* accepted, by the same analyzer or by a new one on the same global table,
\* is accepted too.
C15_Idempotent ==
    run # "first" => pc \in {"sema", "done"} /\ output = <<>>

(***************************************************************************)
(* The emitted MJIR, read off the final instruction list                   *)
(***************************************************************************)
ReturnTypes == {"void", "int", "boolean", "char", "String", "A", "B"}

Defines == {"define_" \o t : t \in ReturnTypes}

Returns == {"return_" \o t : t \in ReturnTypes}

IsDefine(instr) == instr[1] \in Defines

IsReturn(instr) == instr[1] \in Returns

IsLabel(instr) == Len(instr) = 1 /\ ~IsReturn(instr)

IsTerminator(instr) == instr[1] \in {"jump", "cbranch"} \/ IsReturn(instr)

\* the pieces of code that start at the positions satisfying Starts(_)
Pieces(code, Starts(_)) ==
    LET starts == {i \in 1..Len(code) : Starts(code[i])}
    IN  { SubSeq(code, i, IF \E j \in starts : j > i
                          THEN (CHOOSE j \in starts : j > i /\ \A l \in starts : l > i => j <= l) - 1
                          ELSE Len(code)) : i \in starts }

\* the code of each method, from its define to the next one
EmittedMethods == Pieces(gen.code, IsDefine)

\* the basic blocks of a method, from a label to the next one
BasicBlocksOf(method) == Pieces(method, IsLabel)

Terminators(block) == {i \in 1..Len(block) : IsTerminator(block[i])}

\* C16: in the code emitted for any method every basic block has exactly one
\* terminator (jump, cbranch, return_T, return_void) and it is the last
\* instruction of the block
C16_OneTerminator ==
    pc = "emitted" =>
        \A method \in EmittedMethods : \A block \in BasicBlocksOf(method) :
            Terminators(block) = {Len(block)}

\* the operand %name names the block whose label pseudo-instruction is name:
Refers(target, label) == ("%" \o label) = (target \o ":")

\* the labels a jump or cbranch refers to
Targets(instr) ==
    IF instr[1] = "jump" THEN {instr[2]}
    ELSE IF instr[1] = "cbranch" THEN {instr[3], instr[4]}
    ELSE {}

LabelPositions(method) == {i \in 1..Len(method) : IsLabel(method[i])}

\* C17: in the code emitted for any method every label a jump or cbranch refers
\* to is defined by exactly one label pseudo-instruction of the method, the labels
\* of the method are pairwise distinct, and no block is a jump to its own label
C17_LabelsResolve ==
    pc = "emitted" =>
        \A method \in EmittedMethods :
            /\ \A i \in 1..Len(method) : \A target \in Targets(method[i]) :
                   Cardinality({j \in LabelPositions(method) :
                                    Refers(target, method[j][1])}) = 1
            /\ \A i, j \in LabelPositions(method) : method[i] = method[j] => i = j
            /\ \A block \in BasicBlocksOf(method) :
                   ~(Len(block) = 2 /\ block[2][1] = "jump"
                     /\ Refers(block[2][2], block[1][1]))

\* the numbered temporaries %k
Temporaries == {"%" \o ToString(k) : k \in 1..MaxTemp}

\* the register an instruction defines: the last operand of every instruction
\* that is neither a store, a branch, a return, a print, a parameter nor a label
Stores == {"store_" \o t : t \in ReturnTypes \cup {"char[]"}}

Prints == {"print_" \o t : t \in ReturnTypes \cup {"string"}}

Destination(instr) ==
    IF \/ Len(instr) < 2
       \/ IsTerminator(instr) \/ IsDefine(instr)
       \/ instr[1] \in Stores
       \/ instr[1] \in Prints
    THEN ""
    ELSE instr[Len(instr)]

\* the parameter registers %1..%n named by the define of a method
ParamRegisters(method) ==
    {"%" \o ToString(i) : i \in 1..(Len(method[1]) - 2)}

\* the return slot: the register of the alloc that follows entry: in a method
\* that returns a value
ReturnSlot(method) == IF method[1][1] # "define_void" THEN {method[3][2]} ELSE {}

\* the positions of the body of a method: behind the prologue that allocates the
\* return slot and stores the parameters
BodyPositions(method) ==
    LET n == Len(method[1]) - 2
        prologue == 2 + (IF method[1][1] # "define_void" THEN 1 ELSE 0) + 2 * n
    IN  {i \in 1..Len(method) : i > prologue}

\* the number k of the temporary %k
TempNumbers == [reg \in Temporaries |-> CHOOSE k \in 1..MaxTemp : reg = "%" \o ToString(k)]

TempNumber(reg) == TempNumbers[reg]

\* the value visit_MethodDecl and visit_MainMethodDecl give the counter of a method
FirstTemp(method) ==
    IF method[1][1] = "define_void" /\ Len(method[1]) = 3 /\ method[1][3] = "String[] %args"
    THEN 1
    ELSE Len(method[1]) - 2 + (IF method[1][1] # "define_void" THEN 2 ELSE 1)

\* C18: within the code of one method every numbered temporary is the destination
\* of at most one instruction, no instruction of the body defines the register of
\* a parameter or the return slot, and the counter of the method starts at the
\* value of a fresh method and only increases: the temporaries are defined in
\* increasing order from there
C18_SingleAssignment ==
    pc = "emitted" =>
        \A method \in EmittedMethods :
            /\ \A i, j \in 1..Len(method) :
                   Destination(method[i]) \in Temporaries
                   /\ Destination(method[i]) = Destination(method[j]) => i = j
            /\ \A i \in BodyPositions(method) :
                   Destination(method[i]) \notin
                       ParamRegisters(method) \cup ReturnSlot(method)
            /\ \A i, j \in 1..Len(method) :
                   Destination(method[i]) \in Temporaries
                   /\ Destination(method[j]) \in Temporaries /\ i < j
                   => /\ FirstTemp(method) <= TempNumber(Destination(method[i]))
                      /\ TempNumber(Destination(method[i]))
                           < TempNumber(Destination(method[j]))

\* a program with three methods has been lowered, among them one with two
\* parameters, a return slot and temporaries defined in its body
C18_Witness ==
    /\ pc = "emitted"
    /\ Cardinality(EmittedMethods) = 3
    /\ \E method \in EmittedMethods :
           /\ Cardinality(ParamRegisters(method)) = 2
           /\ ReturnSlot(method) # {}
           /\ \E i, j \in BodyPositions(method) :
                  /\ i # j
                  /\ Destination(method[i]) \in Temporaries
                  /\ Destination(method[j]) \in Temporaries

ReturnPositions(method) == {i \in 1..Len(method) : IsReturn(method[i])}

\* C19: the code emitted for any method, regular or main, contains exactly one
\* return instruction (return_T or return_void), and it is in the block labelled
\* exit
C19_SingleReturn ==
    pc = "emitted" =>
        \A method \in EmittedMethods :
            /\ Cardinality(ReturnPositions(method)) = 1
            /\ \A block \in BasicBlocksOf(method) :
                   (\E i \in 1..Len(block) : IsReturn(block[i])) => block[1] = <<"exit:">>

\* the fields a class declares with an initializer, as the program text has them
InitializedFields(class_decl) ==
    {f \in {class_decl.var_decls[i] : i \in 1..Len(class_decl.var_decls)} :
        f.init.k # "None"}

\* the positions of the code at which an object of the class is created
NewPositions(code, class_name) ==
    {i \in 1..Len(code) : code[i][1] = "new_@" \o class_name}

\* behind the creation at position i the field is given the value: the address
\* of the field of the new object is loaded and the literal is stored through it
Initializes(code, i, field_name, value) ==
    \E a, l, s \in (i + 1)..Len(code) :
        /\ a < s /\ l < s
        /\ code[a][1] = "load_addr"
        /\ \E o \in (i + 1)..a :
               /\ code[o][2] = code[i][2]
               /\ code[a][2] = code[o][Len(code[o])] \o "." \o field_name
        /\ code[l] = <<"literal_int", value, code[l][3]>>
        /\ code[s] = <<"store_int", code[l][3], code[a][3]>>

\* the classes D and C are both declared before every class that has methods,
\* so before the code that creates the object
DeclaredBeforeUse(d, c) ==
    \A m \in 1..Len(prog) : prog[m].method_decls # <<>> => d < m /\ c < m

\* every creation of a prog[d] object initialises the fields prog[d] inherits
\* from prog[c] and prog[c] declares with an initializer
InheritedInitialized(d, c) ==
    \A f \in InitializedFields(prog[c]) :
        f.name \notin FieldsOf(prog[d].name) =>
            \A i \in NewPositions(gen.code, prog[d].name) :
                Initializes(gen.code, i, f.name, f.init.text)

\* C20: for a class D that extends C, new D() initialises every field that C
\* declares with an initializer to the value of the initializer, whether C is
\* declared before or after D
C20_InheritedInitializers ==
    pc = "emitted" =>
        \A d, c \in 1..Len(prog) :
            prog[d].extends = prog[c].name /\ DeclaredBeforeUse(d, c)
            => InheritedInitialized(d, c)

(***************************************************************************)
(* C21: the table of the string literals                                   *)
(***************************************************************************)
\* the labels new_text and string_literals hand out
StringLabels == {"@.str." \o ToString(k) : k \in 0..MaxTemp}

\* the label operands of the emitted instructions: the uses of the literals
UsedLabels ==
    UNION { { gen.code[i][j] : j \in 2..Len(gen.code[i]) }
            : i \in {n \in 1..Len(gen.code) : gen.code[n][1] # "global_String"} }
    \cap StringLabels

\* C21: after IR generation the text section holds exactly one global_String
\* entry for each payload, two different payloads never share a label, and
\* every label an instruction uses is the label of an entry
C21_StringTable ==
    pc = "emitted" =>
        /\ \A i, j \in 1..Len(gen.text) :
               gen.text[i][3] = gen.text[j][3] => i = j
        /\ \A i, j \in 1..Len(gen.text) :
               gen.text[i][2] = gen.text[j][2] => gen.text[i][3] = gen.text[j][3]
        /\ \A label \in UsedLabels : \E i \in 1..Len(gen.text) : gen.text[i][2] = label

(***************************************************************************)
(* C22-C24: the dataflow pass                                              *)
(***************************************************************************)
\* the pass has ended, by returning from visit_Program or by an exception
FlowEnded == pc \in {"optimized", "flow_raised"}

\* C22: for every program the generator has emitted MJIR for, the dataflow pass
\* yields the optimized MJIR that is interpreted in its place, and the optimized
\* instruction list is never longer than the unoptimized one
C22_OptimizedCode ==
    FlowEnded => opt.raised = "" /\ Len(opt.code) <= Len(gen.code)

\* the calls the handler is written to make for the methods from the j-th on
RECURSIVE method_calls(_, _, _)
method_calls(class_name, method_decls, j) ==
    IF j > Len(method_decls) THEN <<>>
    ELSE [i \in 1..Len(MethodSteps) |->
             <<"@" \o class_name \o "." \o method_name(method_decls[j]), MethodSteps[i]>>]
         \o method_calls(class_name, method_decls, j + 1)

RECURSIVE class_calls(_)
class_calls(c) ==
    IF c > Len(prog) THEN <<>>
    ELSE method_calls(prog[c].name, prog[c].method_decls, 1) \o class_calls(c + 1)

\* C23: when the pass has ended it has run, for each method in declaration order
\* and one method at a time, the reaching-definitions analysis, constant
\* propagation, the live-variable analysis, dead-code elimination, the
\* short-circuiting of jumps, the block merge and the discarding of unused allocs,
\* and only then the appending of the method's instructions
C23_StepOrder ==
    FlowEnded => opt.calls = class_calls(1)

\* the records of the classes and fields in the unoptimized code
ClassRecords == SelectSeq(gen.code, IsRecord)

IsText(instr) == instr[1] = "global_String"

\* C24: the list the pass ends with has the text section first, then the class and
\* field records, then the method code, with no text entry and no record after a
\* method instruction, and the text section of the program is as the generator
\* left it
C24_Layout ==
    FlowEnded =>
        /\ opt.raised = ""
        /\ Len(opt.code) >= Len(gen.text) + Len(ClassRecords)
        /\ SubSeq(opt.code, 1, Len(gen.text)) = gen.text
        /\ SubSeq(opt.code, Len(gen.text) + 1, Len(gen.text) + Len(ClassRecords))
               = ClassRecords
        /\ \A i \in (Len(gen.text) + Len(ClassRecords) + 1)..Len(opt.code) :
               ~IsText(opt.code[i]) /\ ~IsRecord(opt.code[i])
        /\ SubSeq(gen.code, 1, Len(gen.text)) = gen.text

(***************************************************************************)
(* C25: the lowering of break                                              *)
(***************************************************************************)
\* the labels that open and close a loop in the emitted code, and the operand of
\* a jump to the label that closes it
LoopConds ==
    {<<"for.cond:">>} \cup {<<while_label(ToString(k), ".cond:")>> : k \in 1..MaxTemp}

LoopEnds ==
    ("for.end:" :> "%for.end")
    @@ [label \in {while_label(ToString(k), ".end:") : k \in 1..MaxTemp} |->
           "%" \o while_label(ToString(CHOOSE k \in 1..MaxTemp :
                                           label = while_label(ToString(k), ".end:")),
                              ".end")]

EndTargets == {LoopEnds[label] : label \in DOMAIN LoopEnds}

IsLoopEnd(instr) == Len(instr) = 1 /\ instr[1] \in DOMAIN LoopEnds

IsBreakJump(instr) == instr[1] = "jump" /\ instr[2] \in EndTargets

\* the number of loops that are open after the first i instructions
RECURSIVE nesting(_, _)
nesting(code, i) ==
    IF i = 0 THEN 0
    ELSE nesting(code, i - 1)
         + (IF code[i] \in LoopConds THEN 1 ELSE IF IsLoopEnd(code[i]) THEN -1 ELSE 0)

\* the break statements of a statement
RECURSIVE breaks(_)
breaks(node) ==
    CASE node.k = "Break" -> 1
      [] node.k = "Compound" ->
             LET RECURSIVE sum(_)
                 sum(i) == IF i > Len(node.statements) THEN 0
                           ELSE breaks(node.statements[i]) + sum(i + 1)
             IN  sum(1)
      [] node.k \in {"While", "For"} -> breaks(node.body)
      [] OTHER -> 0

\* C25: in a method whose breaks all stand in loops, every break is lowered to a
\* jump to the end label of the innermost loop around it, whatever the nesting and
\* sequencing of while and for loops, also when the break follows an inner loop
C25_BreakTarget ==
    (pc \in {"emitted", "raised"} /\ prog \in BreakPrograms) =>
        /\ ~gen.raised
        /\ Cardinality({i \in 1..Len(gen.code) : IsBreakJump(gen.code[i])})
               = breaks(prog[1].method_decls[1].body)
        /\ \A i \in 1..Len(gen.code) :
               IsBreakJump(gen.code[i]) =>
                   \E j \in (i + 1)..Len(gen.code) :
                       /\ IsLoopEnd(gen.code[j])
                       /\ LoopEnds[gen.code[j][1]] = gen.code[i][2]
                       /\ nesting(gen.code, j) = nesting(gen.code, i) - 1
                       /\ \A k \in (i + 1)..(j - 1) :
                              nesting(gen.code, k) >= nesting(gen.code, i)

(***************************************************************************)
(* C26: the renaming of a loop variable that declares a bound name again   *)
(***************************************************************************)
\* the register of a variable an instruction allocates, reads or writes ("" if none)
VariableOf(instr) ==
    CASE instr[1] = "alloc_int" -> instr[2]
      [] instr[1] = "load_int" /\ instr[2] \notin Temporaries -> instr[2]
      [] instr[1] = "store_int" -> instr[3]
      [] OTHER -> ""

\* the code from the i-th instruction on allocates a register no variable has yet,
\* and reads and writes the variable declared last among those whose scope is open:
\* scopes is the list of the registers of the open declarations of x, innermost last
RECURSIVE resolves(_, _, _, _)
resolves(code, i, scopes, allocated) ==
    IF i > Len(code) THEN Len(scopes) = 1
    ELSE CASE code[i][1] = "alloc_int" ->
                  /\ code[i][2] \notin allocated
                  /\ resolves(code, i + 1, Append(scopes, code[i][2]),
                              allocated \cup {code[i][2]})
           [] code[i] = <<"for.end:">> ->
                  /\ Len(scopes) > 1
                  /\ resolves(code, i + 1, SubSeq(scopes, 1, Len(scopes) - 1), allocated)
           [] OTHER ->
                  /\ VariableOf(code[i]) # "" =>
                         scopes # <<>> /\ VariableOf(code[i]) = scopes[Len(scopes)]
                  /\ resolves(code, i + 1, scopes, allocated)

\* C26: a for loop whose init declares the name of a variable of the method gives
\* its variable a register no other variable of the method has; the condition, the
\* increment and the body use that register, and the code after the loop uses the
\* register of the outer variable again, also for loops inside and after each other
C26_LoopVariable ==
    (pc \in {"emitted", "raised"} /\ prog \in RedeclPrograms) =>
        ~gen.raised /\ resolves(gen.code, 1, <<>>, {})

(***************************************************************************)
(* C27: termination of the analysis                                        *)
(***************************************************************************)
\* the visitors run in one thread to the end: a handler that can run does run
SpecLive == Spec /\ WF_vars(Next)

\* C27: the analysis of every program the builder accepts comes to an end, with the
\* AST accepted, a diagnostic or an exception, also when the extends declarations
\* form a cycle
C27_Terminates == <>(pc \in {"done", "exited", "crashed"})

(***************************************************************************)
(* C28: the fields of different classes                                    *)
(***************************************************************************)
\* the class declares the name as a field more than once
DeclaresTwice(class_name, name) ==
    LET var_decls == DeclOf(class_name).var_decls
    IN  \E i, j \in 1..Len(var_decls) :
            i < j /\ var_decls[i].name = name /\ var_decls[j].name = name

\* C28: the analyzer rejects a field declaration with ALREADY_DECLARED_NAME only
\* when the class of the field declares that name twice, never because a different
\* class has a field of the same name
C28_FieldsPerClass ==
    (/\ pc = "exited"
     /\ last.h = "SA_VarDecl" /\ last.err = "ALREADY_DECLARED_NAME"
     /\ Len(scope_stack) = 1)
    => DeclaresTwice(current_class_name, last.nm)

(***************************************************************************)
(* C29: a local of a nested block that shadows an outer variable           *)
(***************************************************************************)
IsAlloc(instr) == instr[1] = "alloc_int"

\* C29: a local declared in a nested block under the name of a local or parameter
\* of the enclosing scope gets a register of its own, so no register is allocated
\* twice in the method, and after the block the name is the outer variable again:
\* the variable read after the last declaration is the one allocated first
C29_Shadowing ==
    (pc \in {"emitted", "raised"} /\ prog \in ShadowPrograms) =>
        /\ ~gen.raised
        /\ \A i, j \in 1..Len(gen.code) :
               (IsAlloc(gen.code[i]) /\ IsAlloc(gen.code[j]) /\ i # j)
               => gen.code[i][2] # gen.code[j][2]
        /\ \A i \in 1..Len(gen.code) :
               (/\ gen.code[i][1] = "load_int"
                /\ gen.code[i][2] \notin Temporaries
                /\ \A j \in i..Len(gen.code) : ~IsAlloc(gen.code[j]))
               => gen.code[i][2] = SelectSeq(gen.code, IsAlloc)[1][2]

(***************************************************************************)
(* C30: the balance of the scope stack                                     *)
(***************************************************************************)
\* a step that leaves a method, a main method, a Compound, an if, a while or a for
\* without error ends with the depth the stack had when the statement was entered
C30_Exit ==
    (pc = "sema" /\ agenda # <<>> /\ Head(agenda).op \in ScopeExits /\ pc' = "sema")
    => Len(scope_stack') = Len(Head(agenda).entry)

\* a step that makes the stack shorter pops one scope, the one pushed when the
\* statement it leaves was entered
C30_Pop ==
    Len(scope_stack') < Len(scope_stack)
    => /\ Len(scope_stack') = Len(scope_stack) - 1
       /\ agenda # <<>>
       /\ Head(agenda).op \in ScopeExits \cup {"SA_If_iffalse"}
       /\ Len(Head(agenda).entry) = Len(scope_stack')

\* once the analyzer is constructed the base scope is never popped, and it is the
\* only scope left where a class or a method begins and when the analysis is over
C30_Depth ==
    /\ (pc = "sema" \/ pc' = "sema") => Len(scope_stack') >= 1
    /\ AtVisit("sema", {"ClassDecl", "MethodDecl", "MainMethodDecl"})
       => Len(scope_stack) = 1
    /\ pc' = "done" => Len(scope_stack') = 1

\* C30: the scope stack of the analyzer is balanced: leaving a method, a main
\* method, a Compound, an if, a while or a for without error gives the depth of
\* the entry, the stack is never empty, every pop matches an earlier push, and the
\* depth is 1 between methods and between classes.
C30_Balanced == [][C30_Exit /\ C30_Pop /\ C30_Depth]_vars

\* a method has just been left and the next method or class is about to be
\* visited with the base scope alone
C30_Witness ==
    /\ last.h = "SA_MethodDecl_exit"
    /\ AtVisit("sema", {"ClassDecl", "MethodDecl", "MainMethodDecl"})
    /\ Len(scope_stack) = 1

====
